---- MODULE Spec2Model ----
(***************************************************************************)
(* MFTAnalyzer: the record store (MFTAnalyzer.df, DashboardPage.df), its    *)
(* loaders (DataLoader, DashboardPage.load_csv), the filter handlers        *)
(* (apply_quick_filter, apply_advanced_filters), the deleted files scan,    *)
(* the analyses, the exports and the MFT generator worker                   *)
(* (MFTGeneratorThread).                                                    *)
(*                                                                          *)
(* Text is a sequence of one-character strings, so that lower-casing,       *)
(* substring search, suffix tests and pattern matching are computed.        *)
(* A pandas DataFrame is [cols, rows]: cols the ordered column names, rows  *)
(* the records in order, each carrying its index label.  Time is counted    *)
(* in hours.                                                                *)
(***************************************************************************)
EXTENDS Integers, Sequences, FiniteSets, TLC

VARIABLES
    df,            \* MFTAnalyzer.df: the loaded record set
    filtered_df,   \* MFTAnalyzer.filtered_df: the filtered view
    ctl,           \* the filter widgets of the Search & Filter tab
    filter_summary,\* the steps the filter summary lists as active
    table,         \* rows shown by the main table (self.table)
    progress_bar,  \* value of MFTAnalyzer.progress_bar
    lastOp,        \* the GUI handler that ran last
    prev_count,    \* rows the store held when that handler started
    msg,           \* the message box the last handler showed ("" if none)
    loaders,       \* the DataLoader threads that exist
    sigq,          \* signals queued from the loader threads to the GUI thread
    dash_df,       \* DashboardPage.df
    tree,          \* rows of DashboardPage.tree
    dash_msg,      \* message box shown by DashboardPage.load_csv
    gen,           \* the MFTGeneratorThread
    search_results,      \* header and rows of search_results_table
    deleted_count_label, \* the number deleted_count_label shows
    deleted_files_table, \* header and rows of deleted_files_table
    analysis_results,    \* what the analysis pane shows
    exported,            \* the file the last export wrote
    page,                \* GeneratePage: its widgets, worker and close events
    timeline,            \* the figure generate_timeline built last
    results_details      \* the record the results_details pane shows

vars == <<df, filtered_df, ctl, filter_summary, table, progress_bar, lastOp, prev_count, msg, loaders, sigq,
          dash_df, tree, dash_msg, gen,
          search_results, deleted_count_label, deleted_files_table, analysis_results, exported,
          page, timeline, results_details>>

analyzerVars == <<df, filtered_df, ctl, filter_summary, table, progress_bar, lastOp, prev_count, msg,
                  loaders, sigq>>
dashVars == <<dash_df, tree, dash_msg>>
reportVars == <<search_results, deleted_count_label, deleted_files_table, analysis_results, exported>>
pageVars == <<page, timeline, results_details>>

----------------------------------------------------------------------------
(* Bounds of the model *)

\* rows of one CSV file
MaxRows == 2
\* rows of one chunk of pd.read_csv (DataLoader.chunk_size, 10000 in the code)
ChunkSize == 1
\* filter widgets the user has changed at most since the load
MaxActive == 1
\* signals of the loaders waiting for the GUI thread when a load is started
MaxQueued == 2

----------------------------------------------------------------------------
(* Text *)

\* str.lower() on the characters the model uses
LowerChar(c) ==
    CASE c = "A" -> "a"
      [] c = "T" -> "t"
      [] c = "X" -> "x"
      [] OTHER -> c

Lower(s) == [i \in 1..Len(s) |-> LowerChar(s[i])]

\* str.strip(): leading and trailing blanks removed
RECURSIVE LStrip(_)
LStrip(s) == IF s # <<>> /\ Head(s) = " " THEN LStrip(Tail(s)) ELSE s

RECURSIVE RStrip(_)
RStrip(s) ==
    IF s # <<>> /\ s[Len(s)] = " " THEN RStrip(SubSeq(s, 1, Len(s) - 1)) ELSE s

Strip(s) == RStrip(LStrip(s))

\* sub in s, as str.contains(sub, regex=False) computes it
Contains(s, sub) ==
    \E k \in 0..(Len(s) - Len(sub)) : SubSeq(s, k + 1, k + Len(sub)) = sub

\* s.endswith(suf)
EndsWith(s, suf) ==
    /\ Len(suf) <= Len(s)
    /\ SubSeq(s, Len(s) - Len(suf) + 1, Len(s)) = suf

\* a missing text cell (NaN in an object column): no text is equal to it
NaS == <<"NaN">>
\* a missing number (numpy NaN) and a missing timestamp (pandas NaT); sizes,
\* entry numbers, index labels and times are never negative
NaN == -1
NaT == -1
\* a timestamp cell whose text is no date
BadDate == -2
\* a size cell whose text is no number: pd.read_csv keeps the text
BadSize == -2

\* Series.astype(str): a missing cell becomes the text "nan"
AsStr(v) == IF v = NaS THEN <<"n", "a", "n">> ELSE v

----------------------------------------------------------------------------
(* The rows of the CSV files *)

a_txt       == <<"a", ".", "t", "x", "t">>
archive_TXT == <<"a", "r", "c", "h", "i", "v", "e", ".", "T", "X", "T">>
a_txt_bak   == <<"a", ".", "t", "x", "t", ".", "b", "a", "k">>
d_name      == <<"d">>

dir_x == <<"C", ":", "\\", "x">>
dir_T == <<"C", ":", "\\", "T">>

\* QDateTime.currentDateTime() when the window is built, in hours
NowT == 10000
\* addDays(-365) of the default "Date From", in hours
YearHours == 8760

\* the columns whose lower-cased name contains 'created', 'modified',
\* 'access' or 'change'
IsTimestampCol(c) ==
    c \in {"Created0x10", "Created0x30", "LastModified0x10", "LastAccess0x10"}

Row(en, fn, pp, ext, size, inuse, isdir, sifn, c10, c30) ==
    [index |-> NaN, EntryNumber |-> en, FileName |-> fn, ParentPath |-> pp,
     FullPath |-> NaS, Extension |-> ext, FileSize |-> size, InUse |-> inuse,
     IsDirectory |-> isdir, HasAds |-> isdir, IsAds |-> FALSE, Copied |-> ~inuse,
     SI_FN |-> sifn, Created0x10 |-> c10, Created0x30 |-> c30]

\* a recent file, a recent entry without size, an old file, a second entry
\* numbered 1 (a directory whose creation time is no timestamp), and an entry
\* whose name cell read_csv reads as missing (empty, or "NA", "null", "nan")
\* and whose SI creation time is later than its FN creation time
RowPool ==
    << Row(1, a_txt,       dir_x, <<".", "t", "x", "t">>, 10,  TRUE,  FALSE, FALSE, 9990,    9990),
       Row(2, archive_TXT, dir_T, <<".", "T", "X", "T">>, NaN, FALSE, FALSE, FALSE, 9995,    NaT),
       Row(3, a_txt_bak,   dir_x, <<".", "b", "a", "k">>, 0,   TRUE,  FALSE, TRUE,  100,     200),
       Row(1, d_name,      NaS,   NaS,                    5,   FALSE, TRUE,  FALSE, BadDate, 9990),
       Row(5, NaS,         dir_x, NaS,                    7,   TRUE,  FALSE, FALSE, 9995,    9990) >>

AllCols == <<"EntryNumber", "FileName", "ParentPath", "Extension", "FileSize",
             "InUse", "IsDirectory", "HasAds", "IsAds", "Copied", "SI<FN",
             "Created0x10", "Created0x30">>

\* column layouts of the input: every column, the two required ones only,
\* no entry identifier, no file name
ColLayouts ==
    { AllCols,
      <<"EntryNumber", "FileName">>,
      <<"FileName", "ParentPath", "FileSize">>,
      <<"EntryNumber", "ParentPath", "FileSize">> }

HasCol(cols, c) == \E i \in 1..Len(cols) : cols[i] = c

\* the value of column c of row r
Cell(r, c) ==
    CASE c = "EntryNumber" -> r.EntryNumber
      [] c = "FileName"    -> r.FileName
      [] c = "ParentPath"  -> r.ParentPath
      [] c = "FullPath"    -> r.FullPath
      [] c = "Extension"   -> r.Extension
      [] c = "FileSize"    -> r.FileSize
      [] c = "InUse"       -> r.InUse
      [] c = "IsDirectory" -> r.IsDirectory
      [] c = "HasAds"      -> r.HasAds
      [] c = "IsAds"       -> r.IsAds
      [] c = "Copied"      -> r.Copied
      [] c = "SI<FN"       -> r.SI_FN
      [] c = "Created0x10" -> r.Created0x10
      [] c = "Created0x30" -> r.Created0x30

\* a row as a file with the columns cols holds it: the cells of the other
\* columns do not exist (they hold a placeholder no handler reads)
Project(r, cols) ==
    [index |-> NaN,
     EntryNumber |-> IF HasCol(cols, "EntryNumber") THEN r.EntryNumber ELSE NaN,
     FileName    |-> IF HasCol(cols, "FileName") THEN r.FileName ELSE NaS,
     ParentPath  |-> IF HasCol(cols, "ParentPath") THEN r.ParentPath ELSE NaS,
     FullPath    |-> NaS,
     Extension   |-> IF HasCol(cols, "Extension") THEN r.Extension ELSE NaS,
     FileSize    |-> IF HasCol(cols, "FileSize") THEN r.FileSize ELSE NaN,
     InUse       |-> IF HasCol(cols, "InUse") THEN r.InUse ELSE FALSE,
     IsDirectory |-> IF HasCol(cols, "IsDirectory") THEN r.IsDirectory ELSE FALSE,
     HasAds      |-> IF HasCol(cols, "HasAds") THEN r.HasAds ELSE FALSE,
     IsAds       |-> IF HasCol(cols, "IsAds") THEN r.IsAds ELSE FALSE,
     Copied      |-> IF HasCol(cols, "Copied") THEN r.Copied ELSE FALSE,
     SI_FN       |-> IF HasCol(cols, "SI<FN") THEN r.SI_FN ELSE FALSE,
     Created0x10 |-> IF HasCol(cols, "Created0x10") THEN r.Created0x10 ELSE NaT,
     Created0x30 |-> IF HasCol(cols, "Created0x30") THEN r.Created0x30 ELSE NaT]

\* the sequences of 1..n rows picked in the pool among the rows P
RowSeqs(P, n) ==
    UNION { [1..k -> P] : k \in 1..n }

\* a CSV file on disk.  badAt = 0: every line parses; badAt = k: line k is
\* malformed, and pd.read_csv raises when it reads the chunk holding it
CsvFile(cols, picks, badAt) ==
    [exists |-> TRUE, badAt |-> badAt, cols |-> cols,
     rows |-> [i \in 1..Len(picks) |-> Project(RowPool[picks[i]], cols)]]

\* a path that does not exist
MissingFile == [exists |-> FALSE, badAt |-> 0, cols |-> <<>>, rows |-> <<>>]

GoodFilesOver(P) ==
    { CsvFile(cols, picks, 0) : cols \in ColLayouts, picks \in RowSeqs(P, MaxRows) }
GoodFiles == GoodFilesOver(DOMAIN RowPool)
\* files with a malformed first or last line
BrokenFiles == { CsvFile(AllCols, [i \in 1..MaxRows |-> 1], k) : k \in {1, MaxRows} }
Files == GoodFiles \cup BrokenFiles \cup {MissingFile}

\* os.path.getsize of the file, in bytes
FileSizes == {50, 250, 1000}

----------------------------------------------------------------------------
(* DataFrames *)

\* pd.DataFrame()
EmptyFrame == [cols |-> <<>>, rows |-> <<>>]

Min(a, b) == IF a <= b THEN a ELSE b

\* the rows of chunks lo..hi, in order
RECURSIVE FlattenRange(_, _, _)
FlattenRange(chunks, lo, hi) ==
    IF lo > hi THEN <<>>
    ELSE IF lo = hi THEN chunks[lo]
    ELSE FlattenRange(chunks, lo, (lo + hi) \div 2)
           \o FlattenRange(chunks, (lo + hi) \div 2 + 1, hi)

Flatten(chunks) == FlattenRange(chunks, 1, Len(chunks))

\* pd.concat(chunks, ignore_index=True): the rows of the chunks in order,
\* labelled 0, 1, 2, ...
concat(cols, chunks) ==
    LET all == Flatten(chunks)
    IN  [cols |-> cols,
         rows |-> [i \in 1..Len(all) |-> [all[i] EXCEPT !.index = i - 1]]]

\* pd.to_datetime(errors='coerce') of one cell
to_datetime(v) == IF v = BadDate THEN NaT ELSE v

\* frame[mask]: the rows that satisfy P, in order, labels kept
SelectRows(frame, P(_)) == [frame EXCEPT !.rows = SelectSeq(frame.rows, P)]

\* frame.head(n)
head(rows, n) == SubSeq(rows, 1, Min(n, Len(rows)))

\* DataLoader.preprocess_data: timestamp columns become datetimes, FullPath
\* is derived when absent (the category conversion changes no value)
preprocess_data(frame) ==
    LET addPath == /\ ~HasCol(frame.cols, "FullPath")
                   /\ HasCol(frame.cols, "ParentPath")
                   /\ HasCol(frame.cols, "FileName")
        conv(r) == [r EXCEPT
                      !.Created0x10 = to_datetime(@),
                      !.Created0x30 = to_datetime(@),
                      !.FullPath = IF addPath
                                   THEN AsStr(r.ParentPath) \o <<"\\">> \o AsStr(r.FileName)
                                   ELSE @]
    IN  [cols |-> IF addPath THEN Append(frame.cols, "FullPath") ELSE frame.cols,
         rows |-> [i \in 1..Len(frame.rows) |-> conv(frame.rows[i])]]

----------------------------------------------------------------------------
(* The filter widgets *)

\* QSpinBox maximum and default of size_max
SizeMaxDefault == 2147483647

\* the widgets as create_search_tab builds them
DefaultCtl ==
    [quick_search |-> <<>>, filename_filter |-> <<>>, extension_filter |-> <<>>,
     path_filter |-> <<>>, size_min |-> 0, size_max |-> SizeMaxDefault,
     size_unit |-> "Bytes", date_column |-> "",
     date_from |-> NowT - YearHours, date_to |-> NowT,
     is_directory_cb |-> FALSE, has_ads_cb |-> FALSE, is_ads_cb |-> FALSE,
     deleted_cb |-> FALSE, copied_cb |-> FALSE, si_fn_cb |-> FALSE]

\* the timestamp columns of a frame, in column order
TimestampCols(cols) == SelectSeq(cols, IsTimestampCol)

\* df['FileName'].str of a frame without Extension column whose FileName cells
\* are all missing: the column is read as float64, and .str raises
\* AttributeError
ExtractRaises(frame) ==
    /\ ~HasCol(frame.cols, "Extension")
    /\ HasCol(frame.cols, "FileName")
    /\ frame.rows # <<>>
    /\ \A i \in 1..Len(frame.rows) : frame.rows[i].FileName = NaS

\* MFTAnalyzer.populate_filter_options: the extension box is cleared and the
\* date-column box lists the timestamp columns, the first one current
populate_filter_options(c, frame) ==
    IF frame.rows = <<>> THEN c
    ELSE [c EXCEPT !.extension_filter = <<>>,
                   !.date_column = IF TimestampCols(frame.cols) = <<>> THEN ""
                                   ELSE Head(TimestampCols(frame.cols))]

\* the widgets right after a load of store
BaseCtl(store) == populate_filter_options(DefaultCtl, store)

\* the widgets of c, quick_search aside, that are not as the load left them
Changed(c, store) ==
    LET base == BaseCtl(store)
    IN  { k \in DOMAIN c \ {"quick_search"} : c[k] # base[k] }

\* rows the tables show at most
TableLimit == 1000

\* MFTAnalyzer.update_table_view: the main table shows the filtered view,
\* and keeps its rows when the view is empty
update_table_view(t, view) ==
    IF view.rows = <<>> THEN t ELSE head(view.rows, TableLimit)

\* a table widget: its header labels and its rows
EmptyTable == [cols |-> <<>>, rows |-> <<>>]

\* [col for col in key_columns if col in columns]
available_columns(key_columns, cols) ==
    SelectSeq(key_columns, LAMBDA k : HasCol(cols, k))

\* key_columns of update_search_results
SearchKeyColumns ==
    <<"EntryNumber", "FileName", "ParentPath", "FileSize", "InUse", "IsDirectory",
      "Created0x10", "LastModified0x10">>

\* columns update_search_results falls back to: filtered_df.columns[:8]
FallbackColumns == 8

\* the columns update_search_results shows of a view with columns cols
search_columns(cols) ==
    IF available_columns(SearchKeyColumns, cols) = <<>>
    THEN SubSeq(cols, 1, Min(FallbackColumns, Len(cols)))
    ELSE available_columns(SearchKeyColumns, cols)

\* MFTAnalyzer.update_search_results: an empty view empties the table and
\* keeps its header
update_search_results(shown, view) ==
    IF view.rows = <<>> THEN [shown EXCEPT !.rows = <<>>]
    ELSE LET available == search_columns(view.cols)
         IN  [cols |-> available,
              rows |-> [i \in 1..Min(TableLimit, Len(view.rows)) |->
                          Project(view.rows[i], available)]]

\* df[df['InUse'] == False]
deleted_files(store) == SelectSeq(store.rows, LAMBDA r : r.InUse = FALSE)

\* MFTAnalyzer.update_record_counts: the deleted count, (~df['InUse']).sum(),
\* is shown when the store has an InUse column
update_record_counts(label, store) ==
    IF HasCol(store.cols, "InUse") THEN Len(deleted_files(store)) ELSE label

----------------------------------------------------------------------------
(* DataLoader: the background thread of one load *)

NewLoader(f, sz) ==
    [file |-> f, file_size |-> sz, chunks |-> <<>>, nread |-> 0, bytes_read |-> 0,
     pc |-> "run", emitted |-> <<>>, terminal |-> <<>>]

Running == { i \in DOMAIN loaders : loaders[i].pc = "run" }

\* MFTAnalyzer.load_csv / load_csv_file: the user picks a file among FS; a
\* DataLoader is created on it and started.  maxRunning bounds the loaders
\* that run at once (1: the user waits for a load to end before the next)
load_csv_file(FS, maxRunning) ==
    /\ Cardinality(Running) < maxRunning
    /\ maxRunning = 1 => sigq = <<>>
    /\ Len(sigq) <= MaxQueued
    /\ \E f \in FS :
         IF ~f.exists
         THEN /\ msg' = "File not found"
              /\ UNCHANGED <<progress_bar, loaders>>
         ELSE /\ msg' = ""
              /\ progress_bar' = 0
              /\ \E sz \in FileSizes :
                   loaders' = Append(SelectSeq(loaders, LAMBDA l : l.pc = "run"),
                                     NewLoader(f, sz))
    /\ lastOp' = "load_csv_file"
    /\ prev_count' = Len(df.rows)
    /\ UNCHANGED <<df, filtered_df, ctl, filter_summary, table, sigq, dashVars, gen, pageVars, reportVars>>

\* progress_percent without the cap at 99
progress_percent_Uncapped(bytes_read, file_size) ==
    (bytes_read * 100) \div file_size

\* progress_percent of DataLoader.run
progress_percent(bytes_read, file_size) ==
    Min((bytes_read * 100) \div file_size, 99)

\* the loader after one iteration of the loop over pd.read_csv(chunksize=...)
ReadChunk(l) ==
    LET last == Min(l.nread + ChunkSize, Len(l.file.rows))
        chunk == SubSeq(l.file.rows, l.nread + 1, last)
        br == l.bytes_read + Len(chunk) * 100
    IN  [l EXCEPT !.chunks = Append(@, chunk), !.nread = last, !.bytes_read = br,
                  !.emitted = Append(@, progress_percent(br, l.file_size))]

\* the loader after the loop, emitting error after finished as well
Finish_AlsoError(l) ==
    [l EXCEPT !.pc = "finished", !.emitted = Append(@, 100),
              !.terminal = @ \o <<"finished", "error">>]

\* the loader after the loop: progress 100 and finished are emitted
Finish(l) ==
    [l EXCEPT !.pc = "finished", !.emitted = Append(@, 100),
              !.terminal = Append(@, "finished")]

\* DataLoader.run, one iteration of the loop
DataLoader_run_chunk(i) ==
    LET l == loaders[i]
        last == Min(l.nread + ChunkSize, Len(l.file.rows))
    IN  /\ l.pc = "run"
        /\ l.nread < Len(l.file.rows)
        /\ ~(l.file.badAt \in (l.nread + 1)..last)
        /\ loaders' = [loaders EXCEPT ![i] = ReadChunk(l)]
        /\ sigq' = Append(sigq, [kind |-> "progress",
                                 value |-> ReadChunk(l).emitted[Len(l.emitted) + 1],
                                 df |-> EmptyFrame])
        /\ UNCHANGED <<df, filtered_df, ctl, filter_summary, table, progress_bar, lastOp, prev_count,
                       msg, dashVars, gen, pageVars, reportVars>>

\* DataLoader.run, pd.read_csv raises on the next chunk: the except branch
DataLoader_run_except(i) ==
    LET l == loaders[i]
        last == Min(l.nread + ChunkSize, Len(l.file.rows))
    IN  /\ l.pc = "run"
        /\ l.file.badAt \in (l.nread + 1)..last
        /\ loaders' = [loaders EXCEPT ![i] =
                         [l EXCEPT !.pc = "error", !.terminal = Append(@, "error")]]
        /\ sigq' = Append(sigq, [kind |-> "error", value |-> 0, df |-> EmptyFrame])
        /\ UNCHANGED <<df, filtered_df, ctl, filter_summary, table, progress_bar, lastOp, prev_count,
                       msg, dashVars, gen, pageVars, reportVars>>

\* DataLoader.run after the loop: concat, preprocess, progress 100, finished
DataLoader_run_finish(i) ==
    LET l == loaders[i]
        d == preprocess_data(concat(l.file.cols, l.chunks))
    IN  /\ l.pc = "run"
        /\ l.nread = Len(l.file.rows)
        /\ loaders' = [loaders EXCEPT ![i] = Finish(l)]
        /\ sigq' = sigq \o << [kind |-> "progress", value |-> 100, df |-> EmptyFrame],
                              [kind |-> "finished", value |-> 0, df |-> d] >>
        /\ UNCHANGED <<df, filtered_df, ctl, filter_summary, table, progress_bar, lastOp, prev_count,
                       msg, dashVars, gen, pageVars, reportVars>>

\* loader.progress.connect(self.progress_bar.setValue)
setValue ==
    /\ sigq # <<>>
    /\ Head(sigq).kind = "progress"
    /\ progress_bar' = Head(sigq).value
    /\ sigq' = Tail(sigq)
    /\ UNCHANGED <<df, filtered_df, ctl, filter_summary, table, lastOp, prev_count, msg, loaders,
                   dashVars, gen, pageVars, reportVars>>

\* on_data_loaded appending the new rows to the store instead of replacing it
on_data_loaded_Append ==
    /\ sigq # <<>>
    /\ Head(sigq).kind = "finished"
    /\ LET d == Head(sigq).df
           both == [cols |-> d.cols, rows |-> df.rows \o d.rows]
       IN  /\ df' = both
           /\ filtered_df' = both
           /\ table' = update_table_view(table, both)
           /\ ctl' = populate_filter_options(ctl, both)
           /\ deleted_count_label' = update_record_counts(deleted_count_label, both)
    /\ msg' = "Success"
    /\ lastOp' = "on_data_loaded"
    /\ prev_count' = Len(df.rows)
    /\ sigq' = Tail(sigq)
    /\ UNCHANGED <<filter_summary, progress_bar, loaders, dashVars, gen, pageVars,
                   search_results, deleted_files_table, analysis_results, exported>>

\* MFTAnalyzer.on_data_loaded
on_data_loaded ==
    /\ sigq # <<>>
    /\ Head(sigq).kind = "finished"
    /\ LET d == Head(sigq).df
       IN  /\ df' = d
           /\ filtered_df' = d
           /\ table' = update_table_view(table, d)
           /\ ctl' = populate_filter_options(ctl, d)
           /\ deleted_count_label' = update_record_counts(deleted_count_label, d)
    /\ msg' = "Success"
    /\ lastOp' = "on_data_loaded"
    /\ prev_count' = Len(df.rows)
    /\ sigq' = Tail(sigq)
    /\ UNCHANGED <<filter_summary, progress_bar, loaders, dashVars, gen, pageVars,
                   search_results, deleted_files_table, analysis_results, exported>>

\* MFTAnalyzer.on_load_error
on_load_error ==
    /\ sigq # <<>>
    /\ Head(sigq).kind = "error"
    /\ msg' = "Error"
    /\ lastOp' = "on_load_error"
    /\ prev_count' = Len(df.rows)
    /\ sigq' = Tail(sigq)
    /\ UNCHANGED <<df, filtered_df, ctl, filter_summary, table, progress_bar, loaders, dashVars, gen, pageVars, reportVars>>

----------------------------------------------------------------------------
(* apply_quick_filter and apply_advanced_filters *)

\* filename_pattern.replace('*', '.*').replace('?', '.')
RECURSIVE GlobToRegex(_)
GlobToRegex(g) ==
    IF g = <<>> THEN <<>>
    ELSE (CASE Head(g) = "*" -> <<".", "*">>
            [] Head(g) = "?" -> <<".">>
            [] OTHER -> <<Head(g)>>) \o GlobToRegex(Tail(g))

\* re.compile raises on the pattern (an unterminated character set)
RegexInvalid(re) == \E i \in 1..Len(re) : re[i] = "["

\* one regex atom against one character, case=False: '.' is any character
AtomMatch(a, ch) == a = "." \/ LowerChar(a) = LowerChar(ch)

\* re.match(re, s, IGNORECASE): the pattern matches a prefix of s
RECURSIVE RegexMatch(_, _)
RegexMatch(re, s) ==
    IF re = <<>> THEN TRUE
    ELSE IF Len(re) >= 2 /\ re[2] = "*"
    THEN \E k \in 0..Len(s) :
            /\ \A j \in 1..k : AtomMatch(re[1], s[j])
            /\ RegexMatch(SubSeq(re, 3, Len(re)), SubSeq(s, k + 1, Len(s)))
    ELSE /\ s # <<>>
         /\ AtomMatch(re[1], s[1])
         /\ RegexMatch(Tail(re), Tail(s))

\* the mask of the text search: the text (already lower-cased) occurs in
\* FileName, ParentPath or FullPath, whichever of them the frame has
TextMask(cols, r, text) ==
    \/ HasCol(cols, "FileName") /\ Contains(Lower(AsStr(r.FileName)), text)
    \/ HasCol(cols, "ParentPath") /\ Contains(Lower(AsStr(r.ParentPath)), text)
    \/ HasCol(cols, "FullPath") /\ Contains(Lower(AsStr(r.FullPath)), text)

\* MFTAnalyzer.apply_quick_filter on the text of quick_search
quick_filter(store, text) ==
    LET search_text == Lower(text)
    IN  IF search_text = <<>> THEN store
        ELSE SelectRows(store, LAMBDA r : TextMask(store.cols, r, search_text))

multiplier(unit) ==
    CASE unit = "Bytes" -> 1
      [] unit = "KB" -> 1024
      [] unit = "MB" -> 1024 * 1024
      [] unit = "GB" -> 1024 * 1024 * 1024

\* the value of a timestamp column of a row
DateCell(r, c) == IF c = "Created0x10" THEN r.Created0x10 ELSE r.Created0x30

SetDateCell(r, c, v) ==
    IF c = "Created0x10" THEN [r EXCEPT !.Created0x10 = v]
    ELSE [r EXCEPT !.Created0x30 = v]

\* the steps of apply_advanced_filters, in the order of the code
FilterSteps ==
    <<"text", "pattern", "ext", "path", "size_min", "size_max", "date",
      "is_directory", "has_ads", "is_ads", "deleted", "copied", "si_fn">>

\* whether step s does anything under the widgets c on a frame with columns cols
StepActive(s, cols, c) ==
    CASE s = "text"    -> Strip(c.quick_search) # <<>>
      [] s = "pattern" -> Strip(c.filename_filter) # <<>> /\ HasCol(cols, "FileName")
      [] s = "ext"     -> Strip(c.extension_filter) # <<>>
      [] s = "path"    -> Strip(c.path_filter) # <<>> /\ HasCol(cols, "ParentPath")
      [] s = "size_min" -> HasCol(cols, "FileSize") /\ c.size_min > 0
      [] s = "size_max" -> HasCol(cols, "FileSize") /\ c.size_max < SizeMaxDefault
      [] s = "date"    -> c.date_column # "" /\ HasCol(cols, c.date_column)
      [] s = "is_directory" -> c.is_directory_cb /\ HasCol(cols, "IsDirectory")
      [] s = "has_ads" -> c.has_ads_cb /\ HasCol(cols, "HasAds")
      [] s = "is_ads"  -> c.is_ads_cb /\ HasCol(cols, "IsAds")
      [] s = "deleted" -> c.deleted_cb /\ HasCol(cols, "InUse")
      [] s = "copied"  -> c.copied_cb /\ HasCol(cols, "Copied")
      [] s = "si_fn"   -> c.si_fn_cb /\ HasCol(cols, "SI<FN")

\* the step raises inside its own try block (the pattern is no regex)
StepRaises(s, cols, c) ==
    /\ s = "pattern"
    /\ StepActive(s, cols, c)
    /\ RegexInvalid(GlobToRegex(Strip(c.filename_filter)))

\* filtered['FileSize'] >= actual_min and <= actual_max: a comparison with a
\* missing size is False
SizeMinMask(r, c) ==
    r.FileSize # NaN /\ r.FileSize >= c.size_min * multiplier(c.size_unit)

SizeMaxMask(r, c) ==
    r.FileSize # NaN /\ r.FileSize <= c.size_max * multiplier(c.size_unit)

\* DateMask with the bounds excluded: > and < for >= and <=
DateMask_Exclusive(r, c) ==
    LET v == to_datetime(DateCell(r, c.date_column))
    IN  v # NaT /\ v > c.date_from /\ v < c.date_to

\* (filtered[date_col] >= date_from) & (filtered[date_col] <= date_to): a
\* comparison with NaT is False
DateMask(r, c) ==
    LET v == to_datetime(DateCell(r, c.date_column))
    IN  v # NaT /\ v >= c.date_from /\ v <= c.date_to

\* the mask of step s on row r
StepMask(s, cols, c, r) ==
    CASE s = "text"    -> TextMask(cols, r, Lower(Strip(c.quick_search)))
      [] s = "pattern" -> RegexMatch(GlobToRegex(Strip(c.filename_filter)),
                                     AsStr(r.FileName))
      [] s = "ext"     ->
           IF HasCol(cols, "Extension")
           THEN Lower(AsStr(r.Extension)) = Lower(Strip(c.extension_filter))
           ELSE IF HasCol(cols, "FileName")
           THEN EndsWith(Lower(AsStr(r.FileName)),
                         <<".">> \o Lower(Strip(c.extension_filter)))
           ELSE TRUE
      [] s = "path"    -> Contains(Lower(AsStr(r.ParentPath)), Lower(Strip(c.path_filter)))
      [] s = "size_min" -> SizeMinMask(r, c)
      [] s = "size_max" -> SizeMaxMask(r, c)
      [] s = "date"    -> DateMask(r, c)
      [] s = "is_directory" -> r.IsDirectory = TRUE
      [] s = "has_ads" -> r.HasAds = TRUE
      [] s = "is_ads"  -> r.IsAds = TRUE
      [] s = "deleted" -> r.InUse = FALSE
      [] s = "copied"  -> r.Copied = TRUE
      [] s = "si_fn"   -> r.SI_FN = TRUE

\* ApplyStep whose path step selects from the store, self.df[...], instead of
\* from filtered
ApplyStep_PathFromStore(s, filtered, store, c) ==
    IF ~StepActive(s, filtered.cols, c) \/ StepRaises(s, filtered.cols, c) THEN filtered
    ELSE LET from == IF s = "path" THEN store ELSE filtered
             conv == IF s = "date"
                     THEN [from EXCEPT !.rows =
                             [i \in 1..Len(from.rows) |->
                                SetDateCell(from.rows[i], c.date_column,
                                   to_datetime(DateCell(from.rows[i], c.date_column)))]]
                     ELSE from
         IN  SelectRows(conv, LAMBDA r : StepMask(s, from.cols, c, r))

\* one step of apply_advanced_filters: filtered = filtered[mask]; the date
\* step first converts its column of filtered with pd.to_datetime
ApplyStep(s, filtered, store, c) ==
    IF ~StepActive(s, filtered.cols, c) \/ StepRaises(s, filtered.cols, c) THEN filtered
    ELSE LET conv == IF s = "date"
                     THEN [filtered EXCEPT !.rows =
                             [i \in 1..Len(filtered.rows) |->
                                SetDateCell(filtered.rows[i], c.date_column,
                                   to_datetime(DateCell(filtered.rows[i], c.date_column)))]]
                     ELSE filtered
         IN  SelectRows(conv, LAMBDA r : StepMask(s, filtered.cols, c, r))

\* the steps of order applied one after the other, from a copy of the store
RECURSIVE ApplySteps(_, _, _, _)
ApplySteps(order, filtered, store, c) ==
    IF order = <<>> THEN filtered
    ELSE ApplySteps(Tail(order), ApplyStep(Head(order), filtered, store, c), store, c)

\* the frame apply_advanced_filters assigns to filtered_df
advanced_filter(store, c) == ApplySteps(FilterSteps, store, store, c)

\* active_filters of apply_advanced_filters: the steps it reports as applied
active_filters(store, c) ==
    SelectSeq(FilterSteps,
              LAMBDA s : /\ StepActive(s, store.cols, c)
                         /\ ~StepRaises(s, store.cols, c))

\* textChanged of quick_search: the user types a text among T, and
\* apply_quick_filter runs
apply_quick_filter(T) ==
    \E t \in T :
      /\ t # ctl.quick_search
      /\ ctl' = [ctl EXCEPT !.quick_search = t]
      /\ IF df.rows = <<>>
         THEN UNCHANGED <<filtered_df, filter_summary, search_results, deleted_count_label>>
         ELSE /\ filtered_df' = quick_filter(df, t)
              /\ search_results' = update_search_results(search_results, filtered_df')
              /\ deleted_count_label' = update_record_counts(deleted_count_label, df)
              /\ filter_summary' = <<>>
      /\ lastOp' = "apply_quick_filter"
      /\ prev_count' = Len(df.rows)
      /\ msg' = ""
      /\ UNCHANGED <<df, table, progress_bar, loaders, sigq, dashVars, gen, pageVars,
                     deleted_files_table, analysis_results, exported>>

\* what the user may enter in the widgets
QuickTexts == { <<>>, <<"b", "a", "k">>, <<"n", "a", "n">> }
Patterns   == { <<>>, <<"*", ".", "t", "x", "t">>, <<"[">> }
Extensions == { <<>>, <<"t", "x", "t">>, <<".", "t", "x", "t">> }
PathTexts  == { <<>>, <<"x">> }
SizeMins   == { 0, 5 }
SizeMaxs   == { SizeMaxDefault, 10 }
SizeUnits  == { "Bytes", "KB" }
DateRanges == { <<NowT - YearHours, NowT>>, <<0, NowT>>, <<9990, NowT>>,
                <<NowT - YearHours, 9995>> }
CheckBoxes == { "is_directory_cb", "has_ads_cb", "is_ads_cb", "deleted_cb",
                "copied_cb", "si_fn_cb" }

\* the widgets after the user edits one of them or none (never quick_search,
\* whose textChanged runs apply_quick_filter)
WidgetEdits(c, store) ==
    UNION {
      { [c EXCEPT !.filename_filter = v] : v \in Patterns },
      { [c EXCEPT !.extension_filter = v] : v \in Extensions },
      { [c EXCEPT !.path_filter = v] : v \in PathTexts },
      { [c EXCEPT !.size_min = v] : v \in SizeMins },
      { [c EXCEPT !.size_max = v] : v \in SizeMaxs },
      { [c EXCEPT !.size_unit = v] : v \in SizeUnits },
      { [c EXCEPT !.date_column = TimestampCols(store.cols)[k]] :
            k \in DOMAIN TimestampCols(store.cols) },
      { [c EXCEPT !.date_from = v[1], !.date_to = v[2]] : v \in DateRanges },
      { [c EXCEPT ![b] = ~c[b]] : b \in CheckBoxes } }

\* apply_advanced_filters assigning its result to the store as well
apply_advanced_filters_InPlace ==
    \E c \in WidgetEdits(ctl, df) :
      /\ Cardinality(Changed(c, df)) <= MaxActive
      /\ ctl' = c
      /\ IF df.rows = <<>>
         THEN UNCHANGED <<df, filtered_df, filter_summary, msg, search_results,
                          deleted_count_label>>
         ELSE /\ filtered_df' = advanced_filter(df, c)
              /\ df' = filtered_df'
              /\ search_results' = update_search_results(search_results, filtered_df')
              /\ deleted_count_label' = update_record_counts(deleted_count_label, df')
              /\ filter_summary' = active_filters(df, c)
              /\ msg' = IF \E i \in 1..Len(FilterSteps) :
                                StepRaises(FilterSteps[i], df.cols, c)
                        THEN "Filter Error" ELSE ""
      /\ lastOp' = "apply_advanced_filters"
      /\ prev_count' = Len(df.rows)
      /\ UNCHANGED <<table, progress_bar, loaders, sigq, dashVars, gen, pageVars,
                     deleted_files_table, analysis_results, exported>>

\* the "Apply Filters" button, pressed after the user edited a widget
apply_advanced_filters ==
    \E c \in WidgetEdits(ctl, df) :
      /\ Cardinality(Changed(c, df)) <= MaxActive
      /\ ctl' = c
      /\ IF df.rows = <<>>
         THEN UNCHANGED <<filtered_df, filter_summary, msg, search_results,
                          deleted_count_label>>
         ELSE /\ filtered_df' = advanced_filter(df, c)
              /\ search_results' = update_search_results(search_results, filtered_df')
              /\ deleted_count_label' = update_record_counts(deleted_count_label, df)
              /\ filter_summary' = active_filters(df, c)
              /\ msg' = IF \E i \in 1..Len(FilterSteps) :
                                StepRaises(FilterSteps[i], df.cols, c)
                        THEN "Filter Error" ELSE ""
      /\ lastOp' = "apply_advanced_filters"
      /\ prev_count' = Len(df.rows)
      /\ UNCHANGED <<df, table, progress_bar, loaders, sigq, dashVars, gen, pageVars,
                     deleted_files_table, analysis_results, exported>>

----------------------------------------------------------------------------
(* Python floats: the percentages of the analyses are computed in IEEE 754
   double precision and printed with two decimals.  A natural number is kept
   as the sequence of its bits, lowest first, and a float as m * 2^e with m
   of at most 53 bits. *)

MantissaBits == 53
\* bits the quotient of a division is computed on before it is rounded
QuotientShift == 70

RECURSIVE Bits(_)
Bits(n) == IF n = 0 THEN <<>> ELSE <<n % 2>> \o Bits(n \div 2)

RECURSIVE BitsVal(_)
BitsVal(b) == IF b = <<>> THEN 0 ELSE Head(b) + 2 * BitsVal(Tail(b))

\* b without its leading zero bits
Trim(b) ==
    LET ones == {i \in 1..Len(b) : b[i] = 1}
    IN  IF ones = {} THEN <<>>
        ELSE SubSeq(b, 1, CHOOSE i \in ones : \A j \in ones : j <= i)

\* bits lo..hi of b times a small c, plus carry: the product bits and the
\* carry out, the low half first and its carry into the high half
RECURSIVE MulRange(_, _, _, _, _)
MulRange(b, lo, hi, c, carry) ==
    IF lo > hi THEN [bits |-> <<>>, carry |-> carry]
    ELSE IF lo = hi
    THEN [bits |-> <<(b[lo] * c + carry) % 2>>, carry |-> (b[lo] * c + carry) \div 2]
    ELSE LET mid == (lo + hi) \div 2
             L == MulRange(b, lo, mid, c, carry)
             H == MulRange(b, mid + 1, hi, c, L.carry)
         IN  [bits |-> L.bits \o H.bits, carry |-> H.carry]

\* b * c + carry, for a small c
MulSmall(b, c, carry) ==
    LET m == MulRange(b, 1, Len(b), c, carry) IN m.bits \o Bits(m.carry)

\* long division of bits lo..hi of b by a small d, r the remainder coming in
\* from the higher bits: the high half first, its remainder into the low half;
\* the quotient bits highest first
RECURSIVE DivRange(_, _, _, _, _)
DivRange(b, lo, hi, d, r) ==
    IF lo > hi THEN [q |-> <<>>, r |-> r]
    ELSE IF lo = hi
    THEN [q |-> <<(2 * r + b[lo]) \div d>>, r |-> (2 * r + b[lo]) % d]
    ELSE LET mid == (lo + hi) \div 2
             H == DivRange(b, mid + 1, hi, d, r)
             L == DivRange(b, lo, mid, d, H.r)
         IN  [q |-> H.q \o L.q, r |-> L.r]

Reverse(s) == [i \in 1..Len(s) |-> s[Len(s) + 1 - i]]

\* quotient and remainder of b by a small d
DivRem(b, d) ==
    LET x == DivRange(b, 1, Len(b), d, 0) IN [q |-> Reverse(x.q), r |-> x.r]

\* bits lo..hi of a - b, with the borrow coming in from the lower bits
RECURSIVE SubRange(_, _, _, _, _)
SubRange(a, b, lo, hi, borrow) ==
    IF lo > hi THEN [bits |-> <<>>, borrow |-> borrow]
    ELSE IF lo = hi
    THEN LET y == (IF lo <= Len(b) THEN b[lo] ELSE 0) + borrow
         IN  IF a[lo] >= y THEN [bits |-> <<a[lo] - y>>, borrow |-> 0]
                           ELSE [bits |-> <<a[lo] + 2 - y>>, borrow |-> 1]
    ELSE LET mid == (lo + hi) \div 2
             L == SubRange(a, b, lo, mid, borrow)
             H == SubRange(a, b, mid + 1, hi, L.borrow)
         IN  [bits |-> L.bits \o H.bits, borrow |-> H.borrow]

\* a - b for a >= b
SubBits(a, b, borrow) == SubRange(a, b, 1, Len(a), borrow).bits

ShiftLeft(b, k) == [i \in 1..k |-> 0] \o b

\* b + 1
Inc(b) ==
    LET zeros == {i \in 1..Len(b) : b[i] = 0}
    IN  IF zeros = {} THEN [i \in 1..Len(b) |-> 0] \o <<1>>
        ELSE LET z == CHOOSE i \in zeros : \A j \in zeros : i <= j
             IN  [i \in 1..Len(b) |-> IF i < z THEN 0 ELSE IF i = z THEN 1 ELSE b[i]]

\* b / 2^k rounded to the nearest integer, ties to even
RoundShift(b, k) ==
    IF k = 0 THEN b
    ELSE LET q == IF k < Len(b) THEN SubSeq(b, k + 1, Len(b)) ELSE <<>>
             half == k <= Len(b) /\ b[k] = 1
             sticky == \E i \in 1..(k - 1) : i <= Len(b) /\ b[i] = 1
             odd == q # <<>> /\ Head(q) = 1
         IN  IF half /\ (sticky \/ odd) THEN Inc(q) ELSE q

\* the float nearest to b * 2^e
RECURSIVE Float(_, _)
Float(b, e) ==
    IF Len(Trim(b)) <= MantissaBits THEN [m |-> Trim(b), e |-> e]
    ELSE LET k == Len(Trim(b)) - MantissaBits
         IN  Float(RoundShift(Trim(b), k), e + k)

\* count / total
fdiv(count, total) ==
    LET d == DivRem(ShiftLeft(Bits(count), QuotientShift), total)
    IN  Float(<<IF d.r = 0 THEN 0 ELSE 1>> \o d.q, 0 - (QuotientShift + 1))

\* x * 100
fmul100(x) == Float(MulSmall(x.m, 100, 0), x.e)

\* 100 - x, for 0 <= x <= 100
fsub100(x) == Float(SubBits(ShiftLeft(Bits(100), 0 - x.e), x.m, 0), x.e)

\* f"{x:.2f}", as hundredths: the decimal nearest to the float, ties to even
format_2f(x) == BitsVal(Trim(RoundShift(MulSmall(x.m, 100, 0), 0 - x.e)))

\* percentage = (count / total) * 100
percentage(count, total) == fmul100(fdiv(count, total))

----------------------------------------------------------------------------
(* Deleted files, analyses and exports *)

\* key_columns of scan_deleted_files
DeletedKeyColumns ==
    <<"EntryNumber", "FileName", "ParentPath", "FileSize", "Created0x10",
      "LastModified0x10">>

\* "Scan for Deleted Files": MFTAnalyzer.scan_deleted_files
scan_deleted_files ==
    /\ IF df.rows = <<>>
       THEN /\ msg' = "No data loaded."
            /\ UNCHANGED <<deleted_files_table, deleted_count_label>>
       ELSE IF ~HasCol(df.cols, "InUse")
       THEN /\ msg' = "No InUse column found in data."
            /\ UNCHANGED <<deleted_files_table, deleted_count_label>>
       ELSE IF deleted_files(df) = <<>>
       THEN /\ msg' = "No deleted files found."
            /\ UNCHANGED <<deleted_files_table, deleted_count_label>>
       ELSE LET available == available_columns(DeletedKeyColumns, df.cols)
            IN  /\ deleted_files_table' =
                     [cols |-> available,
                      rows |-> [i \in 1..Len(deleted_files(df)) |->
                                  Project(deleted_files(df)[i], available)]]
                /\ deleted_count_label' = Len(deleted_files(df))
                /\ msg' = ""
    /\ lastOp' = "scan_deleted_files"
    /\ prev_count' = Len(df.rows)
    /\ UNCHANGED <<df, filtered_df, ctl, filter_summary, table, progress_bar, loaders, sigq,
                   dashVars, gen, pageVars, search_results, analysis_results, exported>>

\* the analysis pane before any analysis ran
NoAnalysis == [kind |-> "none"]

\* the bucket of the records without extension
NoExtension == <<"No Extension">>

\* the text columns of the input
TextCols == {"FileName", "ParentPath", "FullPath", "Extension"}

\* the text cells of column col that are not missing
Values(store, col) ==
    { Cell(store.rows[i], col) : i \in 1..Len(store.rows) } \ {NaS}

\* preprocess_data made column col a category: an object column (one with a
\* text cell) with less than 50% unique values
IsCategory(store, col) ==
    /\ col \in TextCols
    /\ Values(store, col) # {}
    /\ 2 * Cardinality(Values(store, col)) < Len(store.rows)

\* str.extract(r'\.([^.]+)')[0] of a name: the run of characters other than
\* '.' that follows the first '.' followed by such a character, NaN if none
extract(fn) ==
    LET starts == { i \in 1..(Len(fn) - 1) : fn[i] = "." /\ fn[i + 1] # "." }
    IN  IF fn = NaS \/ starts = {} THEN NaS
        ELSE LET i == CHOOSE k \in starts : \A j \in starts : k <= j
                 stops == { j \in (i + 1)..Len(fn) : fn[j] = "." }
                 last == IF stops = {} THEN Len(fn)
                         ELSE (CHOOSE k \in stops : \A j \in stops : k <= j) - 1
             IN  SubSeq(fn, i + 1, last)

\* analyze_file_types raises: fillna('No Extension') on a category column
\* with a missing cell, or .str on a FileName column of missing cells only
file_types_raises(store) ==
    IF HasCol(store.cols, "Extension")
    THEN /\ IsCategory(store, "Extension")
         /\ \E i \in 1..Len(store.rows) : store.rows[i].Extension = NaS
    ELSE /\ HasCol(store.cols, "FileName")
         /\ Values(store, "FileName") = {}

\* extensions of analyze_file_types: the bucket of each record
extensions(store) ==
    [i \in 1..Len(store.rows) |->
       LET e == IF HasCol(store.cols, "Extension") THEN store.rows[i].Extension
                ELSE extract(store.rows[i].FileName)
       IN  IF e = NaS THEN NoExtension ELSE e]

\* extensions value_counts().head(20) keeps
TopTypes == 20

\* MFTAnalyzer.analyze_file_types: the lines of the table, one for each of
\* the TopTypes most frequent buckets, with its count and its percentage in
\* hundredths
analyze_file_types(store) ==
    IF ~HasCol(store.cols, "Extension") /\ ~HasCol(store.cols, "FileName")
    THEN [kind |-> "No filename or extension data found."]
    ELSE LET ext == extensions(store)
             count(e) == Cardinality({ i \in 1..Len(ext) : ext[i] = e })
             buckets == { ext[i] : i \in 1..Len(ext) }
             top == { e \in buckets :
                        Cardinality({ o \in buckets : count(o) > count(e) }) < TopTypes }
         IN  [kind |-> "File Type Distribution",
              lines |-> { [ext_display |-> IF e = NoExtension THEN e ELSE <<".">> \o e,
                           count |-> count(e),
                           percentage |-> format_2f(percentage(count(e), Len(store.rows)))] :
                          e \in top }]

\* bool_attrs of analyze_attributes
bool_attrs == <<"InUse", "IsDirectory", "HasAds", "IsAds", "Copied", "SI<FN", "uSecZeros">>

\* MFTAnalyzer.analyze_attributes: a line for each boolean attribute of the
\* store, and the deletion analysis when the store has an InUse column
analyze_attributes(store) ==
    LET total_files == Len(store.rows)
        count(attr) == Cardinality({ i \in 1..total_files : Cell(store.rows[i], attr) = TRUE })
        deleted_count == Len(deleted_files(store))
        deleted_percentage == percentage(deleted_count, total_files)
    IN  [kind |-> "Attribute Analysis",
         lines |-> { [attr |-> a, count |-> count(a),
                      percentage |-> format_2f(percentage(count(a), total_files))] :
                     a \in { bool_attrs[k] : k \in { j \in DOMAIN bool_attrs :
                                                      HasCol(store.cols, bool_attrs[j]) } } },
         deletion |-> IF HasCol(store.cols, "InUse")
                      THEN << [deleted |-> deleted_count,
                               deleted_percentage |-> format_2f(deleted_percentage),
                               active |-> total_files - deleted_count,
                               active_percentage |-> format_2f(fsub100(deleted_percentage))] >>
                      ELSE <<>>]

\* the analyses of the analysis_type box that are followed
AnalysisTypes == {"File Type Distribution", "Attribute Analysis"}

\* "Run Analysis": MFTAnalyzer.run_full_analysis, after the user chose an
\* analysis among T
run_full_analysis(T) ==
    \E analysis_type \in T :
      /\ IF df.rows = <<>>
         THEN /\ msg' = "No data loaded."
              /\ UNCHANGED analysis_results
         ELSE IF analysis_type = "File Type Distribution" /\ file_types_raises(df)
         THEN /\ msg' = "Analysis error"
              /\ UNCHANGED analysis_results
         ELSE /\ analysis_results' = IF analysis_type = "File Type Distribution"
                                     THEN analyze_file_types(df)
                                     ELSE analyze_attributes(df)
              /\ msg' = ""
      /\ lastOp' = "run_full_analysis"
      /\ prev_count' = Len(df.rows)
      /\ UNCHANGED <<df, filtered_df, ctl, filter_summary, table, progress_bar, loaders, sigq,
                     dashVars, gen, pageVars, search_results, deleted_count_label, deleted_files_table,
                     exported>>

\* no file written yet
NoFile == [format |-> "none", data |-> "", cols |-> <<>>, rows |-> <<>>]

\* to_csv(index=False), to_excel(index=False), to_json(orient='records'): the
\* rows in order, without their index labels
WithoutIndex(rows) == [i \in 1..Len(rows) |-> [rows[i] EXCEPT !.index = NaN]]

\* rows of the data sample of the HTML report: df.head(100)
ReportLimit == 100

\* MFTAnalyzer.generate_html_report: the summary and the data sample, index
\* labels included
generate_html_report(frame) ==
    [total_records |-> Len(frame.rows),
     deleted |-> IF HasCol(frame.cols, "InUse") THEN <<Len(deleted_files(frame))>> ELSE <<>>,
     cols |-> frame.cols,
     rows |-> head(frame.rows, ReportLimit)]

\* what the user may type as the end of the file name in the save dialog of
\* export_filtered_results ("": the dialog is cancelled)
ExportPaths == {"", ".csv", ".xlsx", ".json", ".txt"}

\* "Export Results": MFTAnalyzer.export_filtered_results
export_filtered_results(P) ==
    \E file_path \in P :
      /\ IF filtered_df.rows = <<>>
         THEN /\ msg' = "No filtered results to export."
              /\ UNCHANGED exported
         ELSE IF file_path = ""
         THEN /\ msg' = ""
              /\ UNCHANGED exported
         ELSE /\ msg' = "Success"
              /\ exported' = IF file_path \in {".csv", ".xlsx", ".json"}
                             THEN [format |-> file_path, data |-> "Filtered Data",
                                   cols |-> filtered_df.cols,
                                   rows |-> WithoutIndex(filtered_df.rows)]
                             ELSE exported
      /\ lastOp' = "export_filtered_results"
      /\ prev_count' = Len(df.rows)
      /\ UNCHANGED <<df, filtered_df, ctl, filter_summary, table, progress_bar, loaders, sigq,
                     dashVars, gen, pageVars, search_results, deleted_count_label, deleted_files_table,
                     analysis_results>>

\* the items of the export_format and export_data boxes
ExportFormats == {"CSV", "JSON", "HTML Report", "Excel"}
ExportData == {"All Data", "Filtered Data", "Deleted Files Only", "Timeline Data"}

\* export_df of export_data_func
export_df(data_type) ==
    IF data_type = "Filtered Data" THEN filtered_df
    ELSE IF data_type = "Deleted Files Only" /\ HasCol(df.cols, "InUse")
    THEN [df EXCEPT !.rows = deleted_files(df)]
    ELSE df

\* "Export Data": MFTAnalyzer.export_data_func, after the user chose a format
\* and a record set; chosen is FALSE when the save dialog is cancelled
export_data_func(F, D) ==
    \E export_format \in F, data_type \in D, chosen \in BOOLEAN :
      /\ IF df.rows = <<>>
         THEN /\ msg' = "No data to export."
              /\ UNCHANGED exported
         ELSE IF ~chosen
         THEN /\ msg' = ""
              /\ UNCHANGED exported
         ELSE /\ msg' = "Success"
              /\ exported' =
                   IF export_format = "HTML Report"
                   THEN [format |-> export_format, data |-> data_type,
                         cols |-> generate_html_report(export_df(data_type)).cols,
                         rows |-> generate_html_report(export_df(data_type)).rows]
                   ELSE [format |-> export_format, data |-> data_type,
                         cols |-> export_df(data_type).cols,
                         rows |-> WithoutIndex(export_df(data_type).rows)]
      /\ lastOp' = "export_data_func"
      /\ prev_count' = Len(df.rows)
      /\ UNCHANGED <<df, filtered_df, ctl, filter_summary, table, progress_bar, loaders, sigq,
                     dashVars, gen, pageVars, search_results, deleted_count_label, deleted_files_table,
                     analysis_results>>

----------------------------------------------------------------------------
(* DashboardPage *)

\* rows DashboardPage.populate_table inserts at most
TreeLimit == 100

TreeCols == <<"EntryNumber", "FileName", "ParentPath">>

\* DashboardPage.load_csv: read_csv, then populate_table, any exception caught.
\* dash_df is <<>> for None and <<frame>> once a file was read
load_csv(FS) ==
    \E f \in FS :
      /\ IF ~f.exists \/ f.badAt # 0
         THEN \* pd.read_csv raises: nothing was assigned
              /\ UNCHANGED <<dash_df, tree>>
              /\ dash_msg' = "Error"
         ELSE LET d == concat(f.cols, <<f.rows>>)
                  keyError == /\ d.rows # <<>>
                              /\ \E k \in 1..Len(TreeCols) : ~HasCol(d.cols, TreeCols[k])
              IN  /\ dash_df' = <<d>>
                  /\ tree' = IF keyError THEN <<>>
                             ELSE [i \in 1..Min(TreeLimit, Len(d.rows)) |->
                                     <<d.rows[i].EntryNumber, d.rows[i].FileName,
                                       d.rows[i].ParentPath>>]
                  /\ dash_msg' = IF keyError THEN "Error" ELSE "Success"
      /\ UNCHANGED <<analyzerVars, gen, reportVars, pageVars>>

----------------------------------------------------------------------------
(* MFTGeneratorThread (gui_generate.py) *)

\* the wait for MFT.bin: timeout = 60 seconds, polled every 2 seconds
timeout == 60
PollSeconds == 2

\* the thread: pc is its position in run, waited the seconds waited for
\* MFT.bin, polls the iterations of the wait loop, emitted the percentages
\* of status_update so far, terminal the finished_success / finished_error
\* signals so far, facts what the run has found true of its tools and files
IdleGen ==
    [pc |-> "idle", waited |-> 0, polls |-> 0, emitted |-> <<>>, terminal |-> <<>>,
     facts |-> {}]
NewGenerator == [IdleGen EXCEPT !.pc = "run"]

\* the percentage of the wait loop: int(30 + (waited / timeout * 20))
wait_progress(waited) == 30 + (waited * 20) \div timeout

\* the signal run ends with after the search of the CSV file, emitting
\* finished_success although no CSV file was found
csv_signal_AlwaysSuccess(csv_file) == "finished_success"

\* the signal run ends with after the search of the CSV file
csv_signal(csv_file) == IF csv_file THEN "finished_success" ELSE "finished_error"

\* iterations of the wait loop the model follows at most
MaxPolls == 40

\* the condition of the wait loop without its timeout
wait_continues_Forever(waited) == TRUE

\* the condition of the wait loop while MFT.bin is missing or empty:
\* waited < timeout
wait_continues(waited) == waited < timeout

\* MFTGeneratorThread.run up to the wait loop: status 10, the administrator
\* check, RawCopy, status 30
MFTGeneratorThread_run_rawcopy ==
    /\ gen.pc = "run"
    /\ \E outcome \in {"not_admin", "rawcopy_failed", "ok"} :
         gen' = IF outcome = "ok"
                THEN [gen EXCEPT !.pc = "wait", !.emitted = @ \o <<10, 30>>,
                                 !.facts = @ \cup {"rawcopy"}]
                ELSE [gen EXCEPT !.pc = "error", !.emitted = Append(@, 10),
                                 !.terminal = Append(@, "finished_error")]
    /\ UNCHANGED <<analyzerVars, dashVars, reportVars, pageVars>>

\* MFTGeneratorThread.run, one iteration of the wait loop: MFT.bin is missing
\* or empty and the timeout has not passed
MFTGeneratorThread_run_wait ==
    /\ gen.pc = "wait"
    /\ wait_continues(gen.waited)
    /\ gen.polls < MaxPolls
    /\ gen' = [gen EXCEPT !.waited = @ + PollSeconds,
                          !.polls = @ + 1,
                          !.emitted = Append(@, wait_progress(gen.waited + PollSeconds))]
    /\ UNCHANGED <<analyzerVars, dashVars, reportVars, pageVars>>

\* MFTGeneratorThread.run after the wait loop: the check of MFT.bin, status
\* 60, MFTECmd, status 80, the search of the CSV file, status 100
MFTGeneratorThread_run_convert ==
    /\ gen.pc = "wait"
    /\ \E outcome \in {"no_bin", "mftecmd_failed", "no_csv", "ok"} :
         /\ outcome # "no_bin" \/ ~wait_continues(gen.waited)
         /\ gen' = CASE outcome = "no_bin" ->
                          [gen EXCEPT !.pc = "error",
                                      !.terminal = Append(@, "finished_error")]
                     [] outcome = "mftecmd_failed" ->
                          [gen EXCEPT !.pc = "error", !.emitted = Append(@, 60),
                                      !.facts = @ \cup {"bin"},
                                      !.terminal = Append(@, "finished_error")]
                     [] outcome = "no_csv" ->
                          [gen EXCEPT !.pc = "error", !.emitted = @ \o <<60, 80>>,
                                      !.facts = @ \cup {"bin", "mftecmd"},
                                      !.terminal = Append(@, csv_signal(FALSE))]
                     [] outcome = "ok" ->
                          [gen EXCEPT !.pc = "success", !.emitted = @ \o <<60, 80, 100>>,
                                      !.facts = @ \cup {"bin", "mftecmd", "csv"},
                                      !.terminal = Append(@, csv_signal(TRUE))]
    /\ UNCHANGED <<analyzerVars, dashVars, reportVars, pageVars>>

----------------------------------------------------------------------------
(* The timeline (generate_timeline, create_timeline_visualization) *)

\* no figure has been built
NoTimeline == [title |-> "", traces |-> <<>>, hourly |-> <<>>]

\* for col in timestamp_cols[:3]
PlotLimit == 3

\* hours of a day; dt.date and dt.hour of a time counted in hours
DayHours == 24
date(t) == t \div DayHours
hour(t) == t % DayHours

\* the value of timestamp column c of row r
StampCell(r, c) ==
    CASE c = "Created0x10"      -> r.Created0x10
      [] c = "Created0x30"      -> r.Created0x30
      [] c = "LastModified0x10" -> r.LastModified0x10
      [] c = "LastAccess0x10"   -> r.LastAccess0x10

\* the members of a finite set of numbers in ascending order
RECURSIVE sort_index(_)
sort_index(S) ==
    IF S = {} THEN <<>>
    ELSE LET m == CHOOSE x \in S : \A y \in S : x <= y
         IN  <<m>> \o sort_index(S \ {m})

\* dropna that keeps the missing timestamps
dropna_KeepsMissing(store, col) ==
    [i \in 1..Len(store.rows) |-> to_datetime(StampCell(store.rows[i], col))]

\* pd.to_datetime(self.df[col], errors='coerce').dropna(): the timestamps of
\* column col that are present, in row order
dropna(store, col) ==
    LET all == [i \in 1..Len(store.rows) |-> to_datetime(StampCell(store.rows[i], col))]
    IN  SelectSeq(all, LAMBDA t : t # NaT)

\* keys.value_counts().sort_index(): the distinct keys in ascending order
\* and, for each, the number of its occurrences
value_counts(keys) ==
    LET x == sort_index({ keys[i] : i \in DOMAIN keys })
    IN  [x |-> x,
         y |-> [k \in DOMAIN x |-> Cardinality({ i \in DOMAIN keys : keys[i] = x[k] })]]

\* the Scatter trace of one timestamp column
day_trace(store, col) ==
    LET timestamps == dropna(store, col)
        hist_data == value_counts([i \in DOMAIN timestamps |-> date(timestamps[i])])
    IN  [name |-> col, x |-> hist_data.x, y |-> hist_data.y]

\* MFTAnalyzer.create_timeline_visualization: a trace for each of the first
\* three timestamp columns that has a timestamp, and the hourly bars of the
\* first timestamp column
create_timeline_visualization(timeline_type, timestamp_cols) ==
    LET plotted == SelectSeq(SubSeq(timestamp_cols, 1, Min(PlotLimit, Len(timestamp_cols))),
                             LAMBDA col : dropna(df, col) # <<>>)
        main_timestamp == dropna(df, timestamp_cols[1])
        hourly_activity == value_counts([i \in DOMAIN main_timestamp |-> hour(main_timestamp[i])])
    IN  [title |-> timeline_type,
         traces |-> [k \in DOMAIN plotted |-> day_trace(df, plotted[k])],
         hourly |-> IF main_timestamp = <<>> THEN <<>>
                    ELSE << [name |-> "Hourly Activity",
                             x |-> hourly_activity.x, y |-> hourly_activity.y] >>]

\* the entries of the timeline_type combo box
TimelineTypes == {"Activity Overview", "File Creation", "File Modification", "File Access"}

\* MFTAnalyzer.generate_timeline
generate_timeline(T) ==
    /\ \E timeline_type \in T :
         IF df.rows = <<>> \/ df.cols = <<>>
         THEN /\ msg' = "No data loaded."
              /\ UNCHANGED timeline
         ELSE IF TimestampCols(df.cols) = <<>>
         THEN /\ msg' = "No timestamp columns found."
              /\ UNCHANGED timeline
         ELSE /\ msg' = ""
              /\ timeline' = create_timeline_visualization(timeline_type, TimestampCols(df.cols))
    /\ lastOp' = "generate_timeline"
    /\ prev_count' = Len(df.rows)
    /\ UNCHANGED <<df, filtered_df, ctl, filter_summary, table, progress_bar, loaders, sigq,
                   dashVars, gen, reportVars, page, results_details>>

----------------------------------------------------------------------------
(* GeneratePage (gui_generate.py) *)

\* GeneratePage.__init__: no save location, no dialog, no worker; drive is
\* the text of drive_combo.  progress_dialog is "None", "shown" or
\* "hidden" (closed but still referenced); close is the state of the window:
\* "open", "asking" (closeEvent shows its question), "waiting" (a handler is
\* blocked in worker_thread.wait()), "accepted" (the close event was
\* accepted), "raised" (closeEvent raised); handled counts the finished_*
\* signals of the worker the page has handled; replaced counts the workers
\* that were still running when generate_mft replaced them; via is the
\* handler that closes the window and waited whether it has come back from
\* worker_thread.wait(); box is the last message box; quit is set by
\* QApplication.quit()
NewPage ==
    [drive |-> "", save_path |-> "", run_btn |-> TRUE, progress_dialog |-> "None",
     worker_thread |-> FALSE, handled |-> 0, replaced |-> 0, close |-> "open",
     via |-> "", waited |-> FALSE, box |-> "", quit |-> FALSE]

\* QThread.isRunning() of the worker: run has been entered and has not returned
isRunning(g) == g.pc \in {"run", "wait"}

\* the page can handle an event: the application runs and the GUI thread is
\* not blocked in wait()
Dispatching == ~page.quit /\ page.close # "waiting"

\* the user can click on the page: it is open and no modal window covers it
Clickable == Dispatching /\ page.close = "open" /\ page.progress_dialog # "shown"

\* what drive_combo shows: the first drive list_drives found, or nothing
Drives == {"", "C:"}
\* what the folder dialog of choose_save_path returns
SavePaths == {"", "MFT.bin"}

\* GeneratePage.choose_save_path: a cancelled dialog keeps the location
choose_save_path(S) ==
    /\ Clickable
    /\ \E folder \in S :
         page' = [page EXCEPT !.save_path = IF folder # "" THEN folder ELSE @]
    /\ UNCHANGED <<analyzerVars, dashVars, gen, reportVars, timeline, results_details>>

\* the statements of generate_mft that start a worker, leaving the button as
\* it is
start_worker_KeepsButton(p) ==
    [p EXCEPT !.progress_dialog = "shown", !.worker_thread = TRUE,
              !.handled = 0, !.box = "",
              !.replaced = IF p.worker_thread /\ isRunning(gen) THEN @ + 1 ELSE @]

\* the statements of generate_mft that start a worker: the button is
\* disabled, the dialog shown, the thread created and started
start_worker(p) ==
    [p EXCEPT !.run_btn = FALSE, !.progress_dialog = "shown", !.worker_thread = TRUE,
              !.handled = 0, !.box = "",
              !.replaced = IF p.worker_thread /\ isRunning(gen) THEN @ + 1 ELSE @]

\* workers replaced while running, at most
MaxReplaced == 2

\* GeneratePage.generate_mft, connected to the click of run_btn
generate_mft ==
    /\ Clickable
    /\ page.run_btn
    /\ IF page.drive = ""
       THEN /\ page' = [page EXCEPT !.box = "Please select a drive."]
            /\ UNCHANGED gen
       ELSE IF page.save_path = ""
       THEN /\ page' = [page EXCEPT !.box = "Please choose save location."]
            /\ UNCHANGED gen
       ELSE /\ page.replaced < MaxReplaced
            /\ page' = start_worker(page)
            /\ gen' = NewGenerator
    /\ UNCHANGED <<analyzerVars, dashVars, reportVars, timeline, results_details>>

\* the user presses Esc in the progress dialog: QDialog.reject hides it
ProgressDialog_reject ==
    /\ Dispatching
    /\ page.progress_dialog = "shown"
    /\ page.close = "open"
    /\ page' = [page EXCEPT !.progress_dialog = "hidden"]
    /\ UNCHANGED <<analyzerVars, dashVars, gen, reportVars, timeline, results_details>>

\* GeneratePage.cleanup_generation
cleanup_generation(p) ==
    [p EXCEPT !.progress_dialog = "None", !.worker_thread = FALSE, !.run_btn = TRUE]

\* the finished_* signal of the worker that the page has not handled yet
Pending == IF page.handled < Len(gen.terminal) THEN gen.terminal[page.handled + 1] ELSE ""

\* GeneratePage.on_generation_success: cleanup, the Success box, quit
on_generation_success ==
    /\ Dispatching
    /\ Pending = "finished_success"
    /\ page' = [cleanup_generation(page) EXCEPT !.handled = @ + 1, !.box = "Success",
                                                !.quit = TRUE]
    /\ UNCHANGED <<analyzerVars, dashVars, gen, reportVars, timeline, results_details>>

\* GeneratePage.on_generation_error: cleanup, the Error box
on_generation_error ==
    /\ Dispatching
    /\ Pending = "finished_error"
    /\ page' = [cleanup_generation(page) EXCEPT !.handled = @ + 1, !.box = "Error"]
    /\ UNCHANGED <<analyzerVars, dashVars, gen, reportVars, timeline, results_details>>

\* QThread.wait() returns: run has returned; this variant returns at once
wait_returns_AtOnce(g) == TRUE

\* QThread.wait() returns: run has returned
wait_returns(g) == ~isRunning(g)

\* GeneratePage.closeEvent up to its question: without a running worker the
\* event is accepted, with one the question is shown
closeEvent ==
    /\ Dispatching
    /\ page.close = "open"
    /\ page.progress_dialog # "shown"
    /\ page' = [page EXCEPT !.via = "closeEvent",
                            !.close = IF page.worker_thread /\ isRunning(gen)
                                      THEN "asking" ELSE "accepted"]
    /\ UNCHANGED <<analyzerVars, dashVars, gen, reportVars, timeline, results_details>>

\* GeneratePage.closeEvent, the answer to the question: No ignores the
\* event; Yes calls worker_thread.quit() and wait(), which raises when the
\* worker ended and was cleaned up while the question was shown
closeEvent_reply ==
    /\ ~page.quit
    /\ page.close = "asking"
    /\ \E reply \in {"Yes", "No"} :
         page' = [page EXCEPT !.close = IF reply = "No" THEN "open"
                                        ELSE IF ~page.worker_thread THEN "raised"
                                        ELSE "waiting"]
    /\ UNCHANGED <<analyzerVars, dashVars, gen, reportVars, timeline, results_details>>

\* GeneratePage.closeEvent after worker_thread.wait(): event.accept()
closeEvent_accept ==
    /\ ~page.quit
    /\ page.close = "waiting"
    /\ page.via = "closeEvent"
    /\ wait_returns(gen)
    /\ page' = [page EXCEPT !.close = "accepted", !.waited = TRUE]
    /\ UNCHANGED <<analyzerVars, dashVars, gen, reportVars, timeline, results_details>>

\* GeneratePage.close_dialog up to worker_thread.wait(); without a running
\* worker the whole handler: the dialog is closed, self.close() is accepted
close_dialog ==
    /\ Dispatching
    /\ page.close = "open"
    /\ page' = IF page.worker_thread /\ isRunning(gen)
               THEN [page EXCEPT !.close = "waiting", !.via = "close_dialog"]
               ELSE [page EXCEPT !.close = "accepted", !.via = "close_dialog",
                                 !.progress_dialog = IF @ = "None" THEN @ ELSE "hidden"]
    /\ UNCHANGED <<analyzerVars, dashVars, gen, reportVars, timeline, results_details>>

\* GeneratePage.close_dialog after worker_thread.wait(): the dialog is
\* closed and self.close() runs closeEvent, which finds no running worker
close_dialog_close ==
    /\ ~page.quit
    /\ page.close = "waiting"
    /\ page.via = "close_dialog"
    /\ wait_returns(gen)
    /\ page' = [page EXCEPT !.close = IF page.worker_thread /\ isRunning(gen)
                                      THEN "asking" ELSE "accepted",
                            !.via = IF page.worker_thread /\ isRunning(gen)
                                    THEN "closeEvent" ELSE @,
                            !.waited = TRUE,
                            !.progress_dialog = IF @ = "None" THEN @ ELSE "hidden"]
    /\ UNCHANGED <<analyzerVars, dashVars, gen, reportVars, timeline, results_details>>

----------------------------------------------------------------------------
(* The results table: sorting and show_row_details *)

\* nothing clicked yet: row is the row clicked last, html the record whose
\* fields the results_details pane lists (<<>>: the placeholder text)
NoDetails == [row |-> -1, html |-> <<>>]

\* the characters of the model in the order of their code points
Alphabet ==
    <<".", "0", "1", "2", "3", "4", "5", "6", "7", "8", "9", ":", "C", "T", "X", "\\",
      "a", "b", "c", "d", "e", "h", "i", "k", "r", "t", "v", "x">>

ord(c) == CHOOSE k \in DOMAIN Alphabet : Alphabet[k] = c

\* str(n) of a natural number
RECURSIVE str_int(_)
str_int(n) ==
    IF n < 10 THEN <<Alphabet[n + 2]>> ELSE str_int(n \div 10) \o <<Alphabet[(n % 10) + 2]>>

\* s < t for two texts, as QString compares them: by code points
RECURSIVE TextLess(_, _)
TextLess(s, t) ==
    IF t = <<>> THEN FALSE
    ELSE IF s = <<>> THEN TRUE
    ELSE IF Head(s) # Head(t) THEN ord(Head(s)) < ord(Head(t))
    ELSE TextLess(Tail(s), Tail(t))

\* the text of the item update_search_results puts in column c of a row:
\* str(value), empty for a missing value
ItemText(r, c) ==
    CASE c = "EntryNumber" -> IF r.EntryNumber = NaN THEN <<>> ELSE str_int(r.EntryNumber)
      [] c = "FileName"    -> IF r.FileName = NaS THEN <<>> ELSE r.FileName
      [] c = "ParentPath"  -> IF r.ParentPath = NaS THEN <<>> ELSE r.ParentPath

\* row r inserted in the sorted rows, after the rows that are not greater
RECURSIVE insert(_, _, _, _)
insert(sorted, r, c, order) ==
    IF sorted = <<>> THEN <<r>>
    ELSE LET before == IF order = "ascending"
                       THEN TextLess(ItemText(r, c), ItemText(Head(sorted), c))
                       ELSE TextLess(ItemText(Head(sorted), c), ItemText(r, c))
         IN  IF before THEN <<r>> \o sorted
             ELSE <<Head(sorted)>> \o insert(Tail(sorted), r, c, order)

\* QTableWidget.sortItems(column, order): a stable sort of the rows by the
\* text of their items in column c
RECURSIVE sortItems(_, _, _)
sortItems(rows, c, order) ==
    IF rows = <<>> THEN <<>>
    ELSE insert(sortItems(SubSeq(rows, 1, Len(rows) - 1), c, order), rows[Len(rows)], c, order)

\* the columns of the results table the user sorts by
SortColumns == {"EntryNumber", "FileName"}

\* the user clicks a header section of search_results_table
\* (setSortingEnabled(True))
sortByColumn(C) ==
    /\ search_results.rows # <<>>
    /\ \E c \in C, order \in {"ascending", "descending"} :
         /\ HasCol(search_results.cols, c)
         /\ search_results' = [search_results EXCEPT !.rows = sortItems(@, c, order)]
    /\ lastOp' = "sortByColumn"
    /\ prev_count' = Len(df.rows)
    /\ UNCHANGED <<df, filtered_df, ctl, filter_summary, table, progress_bar, msg, loaders, sigq,
                   dashVars, gen, deleted_count_label, deleted_files_table, analysis_results,
                   exported, pageVars>>

\* MFTAnalyzer.show_row_details, connected to cellClicked: the user clicks a
\* cell of row `row` of search_results_table
show_row_details ==
    /\ \E row \in 0..(Len(search_results.rows) - 1) :
         results_details' =
             IF row >= Len(filtered_df.rows) THEN [results_details EXCEPT !.row = row]
             ELSE [row |-> row, html |-> filtered_df.rows[row + 1]]
    /\ lastOp' = "show_row_details"
    /\ prev_count' = Len(df.rows)
    /\ UNCHANGED <<df, filtered_df, ctl, filter_summary, table, progress_bar, msg, loaders, sigq,
                   dashVars, gen, reportVars, page, timeline>>

\* the state of the page, the timeline and the details pane at start
InitPage ==
    /\ page = NewPage
    /\ timeline = NoTimeline
    /\ results_details = NoDetails

----------------------------------------------------------------------------
(* Specifications *)

Init ==
    /\ df = EmptyFrame
    /\ filtered_df = EmptyFrame
    /\ ctl = DefaultCtl
    /\ filter_summary = <<>>
    /\ table = <<>>
    /\ progress_bar = 0
    /\ lastOp = "init"
    /\ prev_count = 0
    /\ msg = ""
    /\ loaders = <<>>
    /\ sigq = <<>>
    /\ dash_df = <<>>
    /\ tree = <<>>
    /\ dash_msg = ""
    /\ gen = IdleGen
    /\ search_results = EmptyTable
    /\ deleted_count_label = 0
    /\ deleted_files_table = EmptyTable
    /\ analysis_results = NoAnalysis
    /\ exported = NoFile
    /\ InitPage

\* a file whose first row has a size that is no number and a creation time
\* that is no date
MalformedFile ==
    [exists |-> TRUE, badAt |-> 0, cols |-> AllCols,
     rows |-> << [Project(RowPool[4], AllCols) EXCEPT !.FileSize = BadSize],
                 Project(RowPool[3], AllCols) >>]

\* the files the analyzer window is given
LoadFiles ==
    { f \in GoodFilesOver({1, 2, 4}) : f.cols # <<"EntryNumber", "ParentPath", "FileSize">> }
      \cup BrokenFiles \cup {MissingFile, MalformedFile}

\* MFTAnalyzer: loads, one at a time
Next ==
    \/ load_csv_file(LoadFiles, 1)
    \/ \E i \in DOMAIN loaders : DataLoader_run_chunk(i)
    \/ \E i \in DOMAIN loaders : DataLoader_run_except(i)
    \/ \E i \in DOMAIN loaders : DataLoader_run_finish(i)
    \/ setValue
    \/ on_data_loaded
    \/ on_load_error

Spec == Init /\ [][Next]_vars

\* the loader of a load that ran to its end: ReadChunk until every row is read
ReadAll(l) ==
    LET n == Len(l.file.rows)
        k == (n - l.nread + ChunkSize - 1) \div ChunkSize
        upto(j) == Min(l.nread + j * ChunkSize, n)
        bytes(j) == l.bytes_read + (upto(j) - l.nread) * 100
    IN  [l EXCEPT !.chunks = @ \o [j \in 1..k |-> SubSeq(l.file.rows, upto(j - 1) + 1, upto(j))],
                  !.nread = upto(k),
                  !.bytes_read = bytes(k),
                  !.emitted = @ \o [j \in 1..k |-> progress_percent(bytes(j), l.file_size)]]

\* the stores the filters are exercised on: rows of the pool in pool order,
\* with every column or with the two required columns only, that
\* on_data_loaded loads to its end (populate_filter_options does not raise)
FilterFiles ==
    { f \in GoodFiles :
        /\ f.cols \in {AllCols, <<"EntryNumber", "FileName">>}
        /\ ~ExtractRaises(f)
        /\ \A i, j \in 1..Len(f.rows) : i < j => f.rows[i].FileName # f.rows[j].FileName
        /\ \A i \in 1..(Len(f.rows) - 1) :
             \E a, b \in DOMAIN RowPool :
                /\ a < b
                /\ f.rows[i] = Project(RowPool[a], f.cols)
                /\ f.rows[i + 1] = Project(RowPool[b], f.cols) }

\* the window after on_data_loaded of a file of FilterFiles
InitFilter ==
    \E f \in FilterFiles :
      LET l == Finish(ReadAll(NewLoader(f, 250)))
          d == preprocess_data(concat(f.cols, l.chunks))
      IN  /\ df = d
          /\ filtered_df = d
          /\ ctl = populate_filter_options(DefaultCtl, d)
          /\ filter_summary = <<>>
          /\ table = update_table_view(<<>>, d)
          /\ progress_bar = 100
          /\ lastOp = "on_data_loaded"
          /\ prev_count = 0
          /\ msg = "Success"
          /\ loaders = <<l>>
          /\ sigq = <<>>
          /\ dash_df = <<>>
          /\ tree = <<>>
          /\ dash_msg = ""
          /\ gen = IdleGen
          /\ search_results = EmptyTable
          /\ deleted_count_label = update_record_counts(0, d)
          /\ deleted_files_table = EmptyTable
          /\ analysis_results = NoAnalysis
          /\ exported = NoFile
          /\ InitPage

\* MFTAnalyzer: filtering a loaded store
NextFilter ==
    \/ apply_quick_filter(QuickTexts)
    \/ apply_advanced_filters

SpecFilter == InitFilter /\ [][NextFilter]_vars

\* DashboardPage: loads
NextDash == load_csv(Files)

SpecDash == Init /\ [][NextDash]_vars

\* the files the progress of a load is followed on: progress depends on the
\* number of rows, on the place of a malformed row and on the file size only
ProgressFiles ==
    BrokenFiles \cup { CsvFile(AllCols, picks, 0) : picks \in RowSeqs({1}, MaxRows) }

\* a DataLoader and an MFTGeneratorThread that have just been started
InitProgress ==
    \E f \in ProgressFiles, sz \in FileSizes :
        /\ df = EmptyFrame
        /\ filtered_df = EmptyFrame
        /\ ctl = DefaultCtl
        /\ filter_summary = <<>>
        /\ table = <<>>
        /\ progress_bar = 0
        /\ lastOp = "load_csv_file"
        /\ prev_count = 0
        /\ msg = ""
        /\ loaders = <<NewLoader(f, sz)>>
        /\ sigq = <<>>
        /\ dash_df = <<>>
        /\ tree = <<>>
        /\ dash_msg = ""
        /\ gen = NewGenerator
        /\ search_results = EmptyTable
        /\ deleted_count_label = 0
        /\ deleted_files_table = EmptyTable
        /\ analysis_results = NoAnalysis
        /\ exported = NoFile
        /\ InitPage

\* the two background workers, each running once
NextProgress ==
    \/ \E i \in DOMAIN loaders : DataLoader_run_chunk(i)
    \/ \E i \in DOMAIN loaders : DataLoader_run_except(i)
    \/ \E i \in DOMAIN loaders : DataLoader_run_finish(i)
    \/ MFTGeneratorThread_run_rawcopy
    \/ MFTGeneratorThread_run_wait
    \/ MFTGeneratorThread_run_convert

SpecProgress == InitProgress /\ [][NextProgress]_vars

\* the stores the analyses and the exports are run on.  Rows of the pool in
\* pool order, in four layouts: every column, the two required columns, and
\* two layouts without the columns the tables prefer
AnalysisLayouts ==
    { AllCols, <<"EntryNumber", "FileName">>, <<"InUse", "Extension">>,
      <<"Extension", "Copied">> }
AnalysisPicks == { <<1, 2>>, <<3, 4>>, <<1, 3>>, <<1, 4, 5>> }

b_txt == <<"b", ".", "t", "x", "t">>
c_log == <<"c", ".", "l", "o", "g">>

\* the files a.txt, b.txt, c.log and d
TypeExample ==
    [exists |-> TRUE, badAt |-> 0, cols |-> <<"EntryNumber", "FileName">>,
     rows |-> [i \in 1..4 |->
                 Project([RowPool[1] EXCEPT !.EntryNumber = i,
                                            !.FileName = <<a_txt, b_txt, c_log, d_name>>[i]],
                         <<"EntryNumber", "FileName">>)]]

\* a file of n records of which the first k are not in use
BulkFile(n, k) ==
    [exists |-> TRUE, badAt |-> 0, cols |-> <<"EntryNumber", "FileName", "InUse">>,
     rows |-> [i \in 1..n |->
                 Project([RowPool[1] EXCEPT !.EntryNumber = i, !.InUse = (i > k)],
                         <<"EntryNumber", "FileName", "InUse">>)]]

\* sizes of the large stores: records, and records not in use
BulkSizes == { <<100, 37>>, <<160, 23>> }

AnalysisFiles ==
    { f \in { CsvFile(cols, picks, 0) : cols \in AnalysisLayouts, picks \in AnalysisPicks } :
        ~ExtractRaises(f) }
      \cup {TypeExample} \cup { BulkFile(b[1], b[2]) : b \in BulkSizes }

\* the window after on_data_loaded of a file of AnalysisFiles
InitAnalysis ==
    \E f \in AnalysisFiles :
      LET l == Finish(ReadAll(NewLoader(f, 250)))
          d == preprocess_data(concat(f.cols, l.chunks))
      IN  /\ df = d
          /\ filtered_df = d
          /\ ctl = populate_filter_options(DefaultCtl, d)
          /\ filter_summary = <<>>
          /\ table = update_table_view(<<>>, d)
          /\ progress_bar = 100
          /\ lastOp = "on_data_loaded"
          /\ prev_count = 0
          /\ msg = "Success"
          /\ loaders = <<l>>
          /\ sigq = <<>>
          /\ dash_df = <<>>
          /\ tree = <<>>
          /\ dash_msg = ""
          /\ gen = IdleGen
          /\ search_results = EmptyTable
          /\ deleted_count_label = update_record_counts(0, d)
          /\ deleted_files_table = EmptyTable
          /\ analysis_results = NoAnalysis
          /\ exported = NoFile
          /\ InitPage

\* what the user types in quick_search between analyses and exports
AnalysisTexts == { <<>>, <<"b", "a", "k">> }

\* MFTAnalyzer: the tables and the analyses of a loaded store
NextAnalysis ==
    \/ apply_quick_filter(AnalysisTexts)
    \/ scan_deleted_files
    \/ run_full_analysis(AnalysisTypes)

SpecAnalysis == InitAnalysis /\ [][NextAnalysis]_vars

\* MFTAnalyzer: the exports of a loaded store
NextExport ==
    \/ apply_quick_filter(AnalysisTexts)
    \/ export_filtered_results(ExportPaths)
    \/ export_data_func(ExportFormats, ExportData)

SpecExport == InitAnalysis /\ [][NextExport]_vars

\* the window after on_data_loaded of a file among FS
InitLoaded(FS) ==
    \E f \in FS :
      LET l == Finish(ReadAll(NewLoader(f, 250)))
          d == preprocess_data(concat(f.cols, l.chunks))
      IN  /\ df = d
          /\ filtered_df = d
          /\ ctl = populate_filter_options(DefaultCtl, d)
          /\ filter_summary = <<>>
          /\ table = update_table_view(<<>>, d)
          /\ progress_bar = 100
          /\ lastOp = "on_data_loaded"
          /\ prev_count = 0
          /\ msg = "Success"
          /\ loaders = <<l>>
          /\ sigq = <<>>
          /\ dash_df = <<>>
          /\ tree = <<>>
          /\ dash_msg = ""
          /\ gen = IdleGen
          /\ search_results = EmptyTable
          /\ deleted_count_label = update_record_counts(0, d)
          /\ deleted_files_table = EmptyTable
          /\ analysis_results = NoAnalysis
          /\ exported = NoFile
          /\ InitPage

\* a layout with four timestamp columns
TimelineCols ==
    <<"EntryNumber", "FileName", "Created0x10", "LastModified0x10", "LastAccess0x10",
      "Created0x30">>

\* the modification and access times of the rows of the pool
Modified == <<9995, NaT, 9990, 200, 100>>
Accessed == <<NaT, NaT, 9999, NaT, 52>>

\* row i of the pool as a file with the columns cols holds it
TimelineRow(i, cols) ==
    IF HasCol(cols, "LastModified0x10")
    THEN Project(RowPool[i], cols)
           @@ [LastModified0x10 |-> Modified[i], LastAccess0x10 |-> Accessed[i]]
    ELSE Project(RowPool[i], cols)

\* the files the timeline is built of
TimelineFiles ==
    { [exists |-> TRUE, badAt |-> 0, cols |-> cols,
       rows |-> [i \in 1..Len(picks) |-> TimelineRow(picks[i], cols)]] :
        cols \in {TimelineCols, AllCols, <<"EntryNumber", "FileName">>},
        picks \in RowSeqs(DOMAIN RowPool, MaxRows) \cup { <<1, 2, 3>>, <<5, 3, 1, 2>> } }

\* the window before a load, or after the load of a file of TimelineFiles
InitTimeline == Init \/ InitLoaded(TimelineFiles)

\* MFTAnalyzer: the Timeline tab
NextTimeline == generate_timeline(TimelineTypes)

SpecTimeline == InitTimeline /\ [][NextTimeline]_vars

\* the files of two loads that overlap
ConcurrentFiles ==
    { CsvFile(<<"EntryNumber", "FileName">>, <<1>>, 0),
      CsvFile(<<"EntryNumber", "FileName", "InUse">>, <<3, 2>>, 0),
      CsvFile(AllCols, <<1, 1>>, 2) }

\* MFTAnalyzer: loads started while an earlier load is running
NextConcurrent ==
    \/ load_csv_file(ConcurrentFiles, 2)
    \/ \E i \in DOMAIN loaders : DataLoader_run_chunk(i)
    \/ \E i \in DOMAIN loaders : DataLoader_run_except(i)
    \/ \E i \in DOMAIN loaders : DataLoader_run_finish(i)
    \/ setValue
    \/ on_data_loaded
    \/ on_load_error

SpecConcurrent == Init /\ [][NextConcurrent]_vars

\* the page as it is built, on a machine with or without drives
InitGenerate ==
    \E d \in Drives :
        /\ df = EmptyFrame
        /\ filtered_df = EmptyFrame
        /\ ctl = DefaultCtl
        /\ filter_summary = <<>>
        /\ table = <<>>
        /\ progress_bar = 0
        /\ lastOp = "init"
        /\ prev_count = 0
        /\ msg = ""
        /\ loaders = <<>>
        /\ sigq = <<>>
        /\ dash_df = <<>>
        /\ tree = <<>>
        /\ dash_msg = ""
        /\ gen = IdleGen
        /\ search_results = EmptyTable
        /\ deleted_count_label = 0
        /\ deleted_files_table = EmptyTable
        /\ analysis_results = NoAnalysis
        /\ exported = NoFile
        /\ page = [NewPage EXCEPT !.drive = d]
        /\ timeline = NoTimeline
        /\ results_details = NoDetails

\* GeneratePage, its progress dialog and its worker thread
NextGenerate ==
    \/ choose_save_path(SavePaths)
    \/ generate_mft
    \/ ProgressDialog_reject
    \/ MFTGeneratorThread_run_rawcopy
    \/ MFTGeneratorThread_run_wait
    \/ MFTGeneratorThread_run_convert
    \/ on_generation_success
    \/ on_generation_error
    \/ closeEvent
    \/ closeEvent_reply
    \/ closeEvent_accept
    \/ close_dialog
    \/ close_dialog_close

SpecGenerate == InitGenerate /\ [][NextGenerate]_vars

\* the worker thread is scheduled: run takes its next step when it has one
SpecGenerateLive ==
    SpecGenerate /\ WF_vars(MFTGeneratorThread_run_rawcopy)
                 /\ WF_vars(MFTGeneratorThread_run_wait \/ MFTGeneratorThread_run_convert)

\* the stores the two text searches are compared on
SearchFiles ==
    { CsvFile(cols, picks, 0) :
        cols \in {AllCols, <<"EntryNumber", "FileName">>},
        picks \in { <<1, 3>>, <<2, 3, 4>>, <<3>> } }

\* what the user types in quick_search: nothing, a text, blanks, a text
\* between blanks
SearchTexts ==
    { <<>>, <<"b", "a", "k">>, <<" ">>, <<" ", "b", "a", "k", " ">>, <<"T", "X", "T">> }

\* MFTAnalyzer: the quick search box and the "Apply Filters" button
NextSearch ==
    \/ apply_quick_filter(SearchTexts)
    \/ apply_advanced_filters

SpecSearch == InitLoaded(SearchFiles) /\ [][NextSearch]_vars

\* the stores whose results the user sorts and clicks
DetailFiles ==
    { CsvFile(cols, picks, 0) :
        cols \in {AllCols, <<"EntryNumber", "FileName">>},
        picks \in { <<1, 3>>, <<3, 1>>, <<3, 2, 1>>, <<2>> } }

\* MFTAnalyzer: the results table of the Search & Filter tab
NextDetails ==
    \/ apply_quick_filter(AnalysisTexts \cup { <<"t", "x", "t">> })
    \/ sortByColumn(SortColumns)
    \/ show_row_details

SpecDetails == InitLoaded(DetailFiles) /\ [][NextDetails]_vars

----------------------------------------------------------------------------
(* Loading: claims C1 to C4 *)

\* the entry numbers of a frame are pairwise different
UniqueEntries(rows) ==
    \A i, j \in 1..Len(rows) : i # j => rows[i].EntryNumber # rows[j].EntryNumber

\* what DashboardPage.tree shows of a store
TreeOf(store) ==
    IF store = <<>> THEN <<>>
    ELSE [i \in 1..Min(TreeLimit, Len(store[1].rows)) |->
            <<store[1].rows[i].EntryNumber, store[1].rows[i].FileName,
              store[1].rows[i].ParentPath>>]

\* C1: a load that fails (DashboardPage.load_csv showing its error box)
\* leaves the store as it was before the load or empty, never holding the
\* new data, and the table shows the store.
C1_FailedLoadKeepsStore ==
    [][dash_msg' = "Error" =>
         /\ dash_df' = dash_df \/ dash_df' = <<>>
         /\ tree' = TreeOf(dash_df')]_vars

\* C2: rows in which an entry number occurs twice are never accepted: no
\* loader given such rows ends with finished, and the store never holds two
\* rows with one entry number.
C2_DuplicateEntryRejected ==
    /\ \A i \in DOMAIN loaders :
         (HasCol(loaders[i].file.cols, "EntryNumber")
            /\ ~UniqueEntries(loaders[i].file.rows)) => loaders[i].pc # "finished"
    /\ HasCol(df.cols, "EntryNumber") => UniqueEntries(df.rows)

\* the cells of a stored row are those of the input row, timestamps parsed
SameRecord(r, raw) ==
    /\ r.EntryNumber = raw.EntryNumber
    /\ r.FileName = raw.FileName
    /\ r.ParentPath = raw.ParentPath
    /\ r.Extension = raw.Extension
    /\ r.FileSize = raw.FileSize
    /\ r.InUse = raw.InUse
    /\ r.IsDirectory = raw.IsDirectory
    /\ r.HasAds = raw.HasAds /\ r.IsAds = raw.IsAds /\ r.Copied = raw.Copied
    /\ r.SI_FN = raw.SI_FN
    /\ r.Created0x10 = to_datetime(raw.Created0x10)
    /\ r.Created0x30 = to_datetime(raw.Created0x30)

\* the file of the load that on_data_loaded has just completed
LoadedFile == loaders[Len(loaders)].file

\* C3: after a successful load of N rows with unique entry numbers the store
\* holds exactly those N rows, in input order, labelled 0..N-1, whatever it
\* held before, and the filtered view is the whole store.
C3_LoadReplacesStore ==
    (lastOp = "on_data_loaded" /\ UniqueEntries(LoadedFile.rows)) =>
        /\ Len(df.rows) = Len(LoadedFile.rows)
        /\ \A i \in 1..Len(df.rows) :
             /\ df.rows[i].index = i - 1
             /\ SameRecord(df.rows[i], LoadedFile.rows[i])
        /\ filtered_df = df

\* C3 witness: a load of MaxRows rows with unique entry numbers has replaced
\* a store that held a different number of rows
C3_Witness ==
    /\ lastOp = "on_data_loaded"
    /\ HasCol(df.cols, "EntryNumber")
    /\ UniqueEntries(LoadedFile.rows)
    /\ Len(df.rows) = MaxRows
    /\ prev_count > 0
    /\ prev_count # Len(df.rows)

\* C4: the store is populated only from rows that have the entry-identifier
\* column and the file-name column.
C4_RequiredColumns ==
    df.rows # <<>> =>
        /\ HasCol(df.cols, "EntryNumber")
        /\ HasCol(df.cols, "FileName")

----------------------------------------------------------------------------
(* Progress: claim C5 *)

\* every value of e is a percentage and none is below the one before it
MonotonePercentages(e) ==
    /\ \A k \in 1..Len(e) : e[k] \in 0..100
    /\ \A k \in 1..(Len(e) - 1) : e[k] <= e[k + 1]

\* C5: the percentages one run of DataLoader.run has emitted so far, and the
\* percentages one run of MFTGeneratorThread.run has emitted so far, never
\* decrease and lie in 0..100.
C5_ProgressMonotone ==
    /\ \A i \in DOMAIN loaders : MonotonePercentages(loaders[i].emitted)
    /\ MonotonePercentages(gen.emitted)

\* C5 witness: a load that ended after several chunks, the cap at 99 reached,
\* and a generation that ended after waiting for MFT.bin
C5_Witness ==
    /\ \E i \in DOMAIN loaders :
          /\ loaders[i].pc = "finished"
          /\ Len(loaders[i].emitted) >= 3
          /\ \E k \in 1..Len(loaders[i].emitted) : loaders[i].emitted[k] = 99
    /\ gen.pc = "success"
    /\ gen.waited > PollSeconds

----------------------------------------------------------------------------
(* Filtering: claims C6 to C10 *)

\* the widget of step s is not at its default
NonDefault(s, c, store) ==
    CASE s = "text"     -> c.quick_search # <<>>
      [] s = "pattern"  -> c.filename_filter # <<>>
      [] s = "ext"      -> c.extension_filter # <<>>
      [] s = "path"     -> c.path_filter # <<>>
      [] s = "size_min" -> c.size_min # 0
      [] s = "size_max" -> c.size_max # SizeMaxDefault
      [] s = "date"     -> \/ c.date_column # BaseCtl(store).date_column
                           \/ c.date_from # DefaultCtl.date_from
                           \/ c.date_to # DefaultCtl.date_to
      [] s = "is_directory" -> c.is_directory_cb
      [] s = "has_ads"  -> c.has_ads_cb
      [] s = "is_ads"   -> c.is_ads_cb
      [] s = "deleted"  -> c.deleted_cb
      [] s = "copied"   -> c.copied_cb
      [] s = "si_fn"    -> c.si_fn_cb

\* row r satisfies the predicate of step s: the text search is the substring
\* search for the text as typed, the others are the masks of the steps
Satisfies(s, cols, c, r) ==
    IF s = "text" THEN TextMask(cols, r, Lower(c.quick_search))
    ELSE StepMask(s, cols, c, r)

\* the predicates that are set in the widgets and can be evaluated on the store
ActivePredicates(c, store) ==
    { s \in { FilterSteps[k] : k \in DOMAIN FilterSteps } :
        /\ NonDefault(s, c, store)
        /\ s = "text" \/ (StepActive(s, store.cols, c) /\ ~StepRaises(s, store.cols, c)) }

\* C6: after apply_quick_filter or apply_advanced_filters the filtered view
\* holds exactly the records of the store that satisfy every predicate whose
\* widget is not at its default.
C6_ViewIsConjunction ==
    (lastOp \in {"apply_quick_filter", "apply_advanced_filters"} /\ df.rows # <<>>) =>
        filtered_df.rows =
            SelectSeq(df.rows,
                      LAMBDA r : \A s \in ActivePredicates(ctl, df) :
                                    Satisfies(s, df.cols, ctl, r))

\* C7: apply_advanced_filters with every widget as the load left it and no
\* search text leaves the filtered view equal to the whole store.
C7_DefaultsMatchEverything ==
    (lastOp = "apply_advanced_filters" /\ Changed(ctl, df) = {} /\ ctl.quick_search = <<>>) =>
        filtered_df = df

\* the steps of apply_advanced_filters that do something under the widgets
ActiveSteps(c, store) ==
    SelectSeq(FilterSteps, LAMBDA s : StepActive(s, store.cols, c))

\* C8: the view apply_advanced_filters computes is a subset of the store, in
\* store order, and it is the result of applying the active steps in every
\* order (the inactive steps change nothing wherever they stand).
C8_OrderIndependent ==
    (lastOp = "apply_advanced_filters" /\ df.rows # <<>>) =>
        LET act == ActiveSteps(ctl, df)
        IN  /\ \A p \in Permutations(DOMAIN act) :
                  ApplySteps([i \in DOMAIN act |-> act[p[i]]], df, df, ctl) = filtered_df
            /\ \A i \in 1..Len(filtered_df.rows) :
                  /\ filtered_df.rows[i] = df.rows[filtered_df.rows[i].index + 1]
                  /\ i > 1 => filtered_df.rows[i - 1].index < filtered_df.rows[i].index

\* C8 witness: two or more steps were active and kept some but not all records
C8_Witness ==
    /\ lastOp = "apply_advanced_filters"
    /\ Len(ActiveSteps(ctl, df)) >= 2
    /\ filtered_df.rows # <<>>
    /\ Len(filtered_df.rows) < Len(df.rows)

\* a record without file size: the cell is missing or the column is
AbsentSize(cols, r) == ~HasCol(cols, "FileSize") \/ r.FileSize = NaN

\* C9: when a bound of the size range is set (size_min > 0 or size_max below
\* 2147483647; [0, m] included), no record without file size is in the view
\* apply_advanced_filters computes.
C9_SizeRangeExcludesAbsent ==
    (/\ lastOp = "apply_advanced_filters"
     /\ df.rows # <<>>
     /\ ctl.size_min > 0 \/ ctl.size_max < SizeMaxDefault) =>
        \A i \in 1..Len(filtered_df.rows) : ~AbsentSize(df.cols, filtered_df.rows[i])

\* the glob g matches the whole of s, case-insensitively: '*' is any run of
\* characters, '?' is one character
RECURSIVE GlobMatch(_, _)
GlobMatch(g, s) ==
    IF g = <<>> THEN s = <<>>
    ELSE IF Head(g) = "*"
    THEN \E k \in 0..Len(s) : GlobMatch(Tail(g), SubSeq(s, k + 1, Len(s)))
    ELSE /\ s # <<>>
         /\ Head(g) = "?" \/ LowerChar(Head(g)) = LowerChar(Head(s))
         /\ GlobMatch(Tail(g), Tail(s))

\* C10: the file name of every record the filename pattern keeps matches the
\* glob as a whole, case-insensitively ("a.txt.bak" does not match *.txt).
C10_GlobMatchesWholeName ==
    (/\ lastOp = "apply_advanced_filters"
     /\ df.rows # <<>>
     /\ StepActive("pattern", df.cols, ctl)
     /\ ~StepRaises("pattern", df.cols, ctl)) =>
        \A i \in 1..Len(filtered_df.rows) :
            GlobMatch(Strip(ctl.filename_filter), AsStr(filtered_df.rows[i].FileName))

----------------------------------------------------------------------------
(* Filter predicates: claims C11 to C14, C17, C20 *)

\* the text t is a case-insensitive substring of a file name, parent path or
\* full path that row r has; an empty text is found in every row
TextFound(cols, r, t) ==
    \/ t = <<>>
    \/ \E col \in {"FileName", "ParentPath", "FullPath"} :
          /\ HasCol(cols, col)
          /\ Cell(r, col) # NaS
          /\ Contains(Lower(Cell(r, col)), Lower(t))

\* C11: after apply_quick_filter the view holds exactly the records in which
\* the search text is a case-insensitive substring of the file name, the
\* parent path or the full path; an empty text keeps every record.
C11_TextSearch ==
    (lastOp = "apply_quick_filter" /\ df.rows # <<>>) =>
        filtered_df.rows =
            SelectSeq(df.rows, LAMBDA r : TextFound(df.cols, r, ctl.quick_search))

\* the view apply_advanced_filters computes with the steps S left out
ViewWithout(S) ==
    ApplySteps(SelectSeq(FilterSteps, LAMBDA s : s \notin S), df, df, ctl)

\* the position of the last '.' of s, 0 if it has none
RECURSIVE LastDot(_)
LastDot(s) ==
    IF s = <<>> THEN 0
    ELSE IF s[Len(s)] = "." THEN Len(s) ELSE LastDot(SubSeq(s, 1, Len(s) - 1))

\* the extension of a file name: the lower-cased suffix after its last '.'
ExtensionOf(fn) == Lower(SubSeq(fn, LastDot(fn) + 1, Len(fn)))

\* the extension the user asks for, without a leading '.'
RequestedExtension(c) ==
    LET e == Lower(Strip(c.extension_filter))
    IN  IF e # <<>> /\ Head(e) = "." THEN Tail(e) ELSE e

\* C12: the extension filter keeps, of the records the other filters keep,
\* exactly those whose file name has an extension equal to the requested one,
\* case-insensitively, with or without an Extension column in the input.
C12_ExtensionExact ==
    (/\ lastOp = "apply_advanced_filters"
     /\ df.rows # <<>>
     /\ HasCol(df.cols, "FileName")
     /\ Strip(ctl.extension_filter) # <<>>) =>
        filtered_df.rows =
            SelectSeq(ViewWithout({"ext"}).rows,
                      LAMBDA r : /\ r.FileName # NaS
                                 /\ LastDot(r.FileName) > 0
                                 /\ ExtensionOf(r.FileName) = RequestedExtension(ctl))

\* the value of row r in the chosen date column lies in [date_from, date_to]
InDateRange(r, c) ==
    LET v == DateCell(r, c.date_column)
    IN  /\ v \notin {NaT, BadDate}
        /\ c.date_from <= v
        /\ v <= c.date_to

\* C13: the date filter keeps, of the records the other filters keep, exactly
\* those whose value in the chosen column lies in [from, to], bounds included;
\* a record without a value there is never kept.
C13_DateRangeInclusive ==
    (/\ lastOp = "apply_advanced_filters"
     /\ df.rows # <<>>
     /\ StepActive("date", df.cols, ctl)) =>
        filtered_df.rows =
            SelectSeq(ViewWithout({"date"}).rows, LAMBDA r : InDateRange(r, ctl))

\* C13 witness: the date filter kept a record whose value is a bound of the
\* range the user set and removed a record without a value
C13_Witness ==
    /\ lastOp = "apply_advanced_filters"
    /\ StepActive("date", df.cols, ctl)
    /\ \E i \in 1..Len(filtered_df.rows) :
          DateCell(filtered_df.rows[i], ctl.date_column) \in {ctl.date_from, ctl.date_to}
    /\ \E i \in 1..Len(ViewWithout({"date"}).rows) :
          DateCell(ViewWithout({"date"}).rows[i], ctl.date_column) = NaT

\* C14: apply_quick_filter and apply_advanced_filters leave the store as it
\* was: the same records, in the same order, with the same values.
C14_FilterKeepsStore ==
    [][lastOp' \in {"apply_quick_filter", "apply_advanced_filters"} => df' = df]_vars

\* C14 witness: apply_advanced_filters ran its date step, conversion included,
\* on a store it kept only a part of
C14_Witness ==
    /\ lastOp = "apply_advanced_filters"
    /\ StepActive("date", df.cols, ctl)
    /\ df.rows # <<>>
    /\ Len(filtered_df.rows) < Len(df.rows)

\* both creation times of row r are present and they differ
Anomaly(cols, r) ==
    /\ HasCol(cols, "Created0x10") /\ HasCol(cols, "Created0x30")
    /\ r.Created0x10 \notin {NaT, BadDate}
    /\ r.Created0x30 \notin {NaT, BadDate}
    /\ r.Created0x10 # r.Created0x30

\* C17: on a store that has the SI<FN column and both creation times, the
\* anomaly filter keeps, of the records the other filters keep, exactly those
\* whose SI and FN creation times are both present and differ, in either
\* direction.
C17_AnomalyFlag ==
    (/\ lastOp = "apply_advanced_filters"
     /\ df.rows # <<>>
     /\ HasCol(df.cols, "SI<FN")
     /\ HasCol(df.cols, "Created0x10") /\ HasCol(df.cols, "Created0x30")
     /\ ctl.si_fn_cb) =>
        filtered_df.rows =
            SelectSeq(ViewWithout({"si_fn"}).rows, LAMBDA r : Anomaly(df.cols, r))

\* C20: when a predicate given to apply_advanced_filters is invalid, the view
\* stays as it was: it is not replaced by the result of the other predicates.
C20_InvalidPredicateRejected ==
    [][(/\ lastOp' = "apply_advanced_filters"
        /\ df.rows # <<>>
        /\ \E i \in 1..Len(FilterSteps) : StepRaises(FilterSteps[i], df.cols, ctl'))
       => filtered_df' = filtered_df]_vars

----------------------------------------------------------------------------
(* Analyses, tables and exports: claims C15, C16, C18, C19 *)

\* C15: the deletion analysis counts the records not in use and the records
\* in use; the two counts sum to the size of the store, the two percentages
\* it prints sum to 100.00, and its deleted count is the one the deleted
\* count label and the deleted files table show.
C15_DeletionAnalysis ==
    (/\ lastOp = "run_full_analysis"
     /\ msg = ""
     /\ analysis_results.kind = "Attribute Analysis"
     /\ HasCol(df.cols, "InUse")) =>
        LET d == analysis_results.deletion[1]
        IN  /\ d.deleted = Cardinality({ i \in 1..Len(df.rows) : df.rows[i].InUse = FALSE })
            /\ d.active = Cardinality({ i \in 1..Len(df.rows) : df.rows[i].InUse = TRUE })
            /\ d.deleted + d.active = Len(df.rows)
            /\ d.deleted_percentage + d.active_percentage = 10000
            /\ deleted_count_label = d.deleted
            /\ deleted_files_table.rows # <<>> => Len(deleted_files_table.rows) = d.deleted

\* the bucket of a record in the type distribution: the lower-cased suffix
\* after the last '.' of its file name, "No Extension" when it has none
TypeBucket(r) ==
    IF r.FileName = NaS \/ LastDot(r.FileName) = 0 THEN NoExtension
    ELSE ExtensionOf(r.FileName)

\* C16: on a store without Extension column, the type distribution has one
\* line for each bucket of the records, with the number of records of the
\* bucket and its share of the store in percent.
C16_TypeDistribution ==
    (/\ lastOp = "run_full_analysis"
     /\ msg = ""
     /\ analysis_results.kind = "File Type Distribution"
     /\ HasCol(df.cols, "FileName")
     /\ ~HasCol(df.cols, "Extension")) =>
        LET n == Len(df.rows)
            buckets == { TypeBucket(df.rows[i]) : i \in 1..n }
            size(e) == Cardinality({ i \in 1..n : TypeBucket(df.rows[i]) = e })
        IN  /\ { [ext |-> l.ext_display, count |-> l.count] : l \in analysis_results.lines }
                 = { [ext |-> IF e = NoExtension THEN e ELSE <<".">> \o e,
                      count |-> size(e)] : e \in buckets }
            /\ \A l \in analysis_results.lines :
                 /\ 2 * (l.percentage * n - l.count * 10000) <= n
                 /\ 2 * (l.count * 10000 - l.percentage * n) <= n

\* the record set an export was asked for
ChosenRows(data_type, store, view) ==
    IF data_type = "Filtered Data" THEN view.rows ELSE store.rows

\* C18: a file an export writes holds the rows of the record set it was asked
\* for (the store or the filtered view), in their order, and the export
\* leaves the store and the view as they were.
C18_ExportIsProjection ==
    [][(/\ exported' # exported
        /\ exported'.data \in {"All Data", "Filtered Data"})
       => /\ WithoutIndex(exported'.rows)
               = WithoutIndex(ChosenRows(exported'.data, df, filtered_df))
          /\ df' = df
          /\ filtered_df' = filtered_df]_vars

\* C19: a table that shows records has a column for them: the selection of
\* update_search_results and of scan_deleted_files is never empty.
C19_SelectedColumns ==
    /\ search_results.rows # <<>> => search_results.cols # <<>>
    /\ deleted_files_table.rows # <<>> => deleted_files_table.cols # <<>>

----------------------------------------------------------------------------
(* Recovery, timeline and workers: claims C21 to C30 *)

\* the cells of a stored row are those of the input row, a malformed
\* timestamp or size absent
Recovered(r, raw) ==
    /\ SameRecord([r EXCEPT !.FileSize = raw.FileSize], raw)
    /\ r.FileSize = IF raw.FileSize = BadSize THEN NaN ELSE raw.FileSize

\* C21: a load of a file with malformed optional cells completes, the store
\* holds as many records as the file has rows, the malformed cells are absent
\* and every other cell is as in the file.
C21_MalformedFieldRecovered ==
    lastOp = "on_data_loaded" =>
        /\ Len(df.rows) = Len(LoadedFile.rows)
        /\ \A i \in 1..Len(df.rows) : Recovered(df.rows[i], LoadedFile.rows[i])

\* the numbers of a sequence added up
RECURSIVE SeqSum(_)
SeqSum(q) == IF q = <<>> THEN 0 ELSE Head(q) + SeqSum(Tail(q))

\* the sequence of numbers is strictly ascending
Ascending(q) == \A i, j \in DOMAIN q : i < j => q[i] < q[j]

\* the records of the store whose timestamp in column col is present
Present(col) ==
    { i \in 1..Len(df.rows) : StampCell(df.rows[i], col) \notin {NaT, BadDate} }

\* the (bucket, count) series s counts the records of Present(col) by the
\* bucket of their timestamp, buckets ascending, no empty bucket
SeriesOf(s, col, bucket(_)) ==
    /\ Len(s.x) = Len(s.y)
    /\ Ascending(s.x)
    /\ \A j \in DOMAIN s.x :
         /\ s.y[j] > 0
         /\ s.y[j] = Cardinality({ i \in Present(col) :
                                     bucket(StampCell(df.rows[i], col)) = s.x[j] })
    /\ SeqSum(s.y) = Cardinality(Present(col))

\* C22: the figure generate_timeline builds has one day series for each of
\* the first three timestamp columns that has a timestamp and for no other
\* column; each series is ascending by day and counts exactly the records
\* whose timestamp is present, so that its counts add up to their number;
\* the hourly bars count the present timestamps of the first timestamp
\* column by hour 0..23.
C22_Timeline ==
    (lastOp = "generate_timeline" /\ msg = "") =>
        LET cols == TimestampCols(df.cols)
            chosen == { cols[j] : j \in 1..Min(3, Len(cols)) }
        IN  /\ Len(timeline.traces) <= 3
            /\ \A k \in DOMAIN timeline.traces :
                 /\ timeline.traces[k].name \in chosen
                 /\ SeriesOf(timeline.traces[k], timeline.traces[k].name,
                             LAMBDA t : t \div 24)
            /\ \A k, m \in DOMAIN timeline.traces :
                 timeline.traces[k].name = timeline.traces[m].name => k = m
            /\ \A col \in chosen :
                 Present(col) # {} => \E k \in DOMAIN timeline.traces :
                                         timeline.traces[k].name = col
            /\ IF Present(cols[1]) = {} THEN timeline.hourly = <<>>
               ELSE /\ Len(timeline.hourly) = 1
                    /\ SeriesOf(timeline.hourly[1], cols[1], LAMBDA t : t % 24)
                    /\ \A j \in DOMAIN timeline.hourly[1].x : timeline.hourly[1].x[j] \in 0..23

\* C22 witness: a store with four timestamp columns of which three are
\* plotted, one series counting two records on one day and one series
\* leaving out a record without timestamp.
C22_Witness ==
    /\ lastOp = "generate_timeline"
    /\ Len(TimestampCols(df.cols)) > 3
    /\ Len(timeline.traces) = 3
    /\ \E k \in DOMAIN timeline.traces : \E j \in DOMAIN timeline.traces[k].y :
         timeline.traces[k].y[j] = 2
    /\ \E k \in DOMAIN timeline.traces : SeqSum(timeline.traces[k].y) < Len(df.rows)

\* C23: when a load was started while an earlier loader was running and both
\* loaders have finished and their signals have been handled, the store and
\* the filtered view hold the rows of the file requested last.
C23_LatestRequestWins ==
    (/\ Len(loaders) = 2
     /\ \A i \in DOMAIN loaders : loaders[i].pc = "finished"
     /\ sigq = <<>>) =>
        /\ df.cols = preprocess_data(concat(LoadedFile.cols, <<LoadedFile.rows>>)).cols
        /\ Len(df.rows) = Len(LoadedFile.rows)
        /\ \A i \in 1..Len(df.rows) : SameRecord(df.rows[i], LoadedFile.rows[i])
        /\ filtered_df = df

\* C24: a DataLoader that is running has emitted no terminal signal, one
\* that has ended has emitted exactly one, finished or error; progress 100
\* is emitted once, on the success path, as the signal just before finished;
\* on the error path every progress value is at most 99.
C24_OneTerminalSignal ==
    /\ \A i \in DOMAIN loaders :
         LET l == loaders[i]
         IN  /\ l.pc = "run" => l.terminal = <<>> /\ \A j \in DOMAIN l.emitted : l.emitted[j] <= 99
             /\ l.pc = "finished" =>
                  /\ l.terminal = <<"finished">>
                  /\ l.emitted # <<>>
                  /\ \A j \in DOMAIN l.emitted : l.emitted[j] = 100 <=> j = Len(l.emitted)
             /\ l.pc = "error" =>
                  /\ l.terminal = <<"error">>
                  /\ \A j \in DOMAIN l.emitted : l.emitted[j] <= 99
    /\ \A j \in DOMAIN sigq :
         /\ sigq[j].kind = "finished" =>
              j > 1 /\ sigq[j - 1].kind = "progress" /\ sigq[j - 1].value = 100
         /\ (sigq[j].kind = "progress" /\ sigq[j].value = 100) =>
              j < Len(sigq) /\ sigq[j + 1].kind = "finished"
         /\ sigq[j].kind \in {"finished", "error"} => j = Len(sigq)

\* C24 witness: a run that ended on the error path after it had emitted
\* progress.
C24_Witness ==
    /\ loaders[1].pc = "error"
    /\ loaders[1].emitted # <<>>
    /\ sigq[Len(sigq)].kind = "error"

\* C25: a worker that is running has emitted neither finished signal, one
\* that has ended has emitted exactly one; finished_success is emitted only
\* when RawCopy succeeded, MFT.bin exists and is not empty, MFTECmd succeeded
\* and a .csv file was found, and status 100 is emitted on that path only.
C25_OneFinishedSignal ==
    /\ gen.pc \in {"idle", "run", "wait"} => gen.terminal = <<>>
    /\ gen.pc = "error" => gen.terminal = <<"finished_error">>
    /\ gen.pc = "success" => gen.terminal = <<"finished_success">>
    /\ gen.terminal = <<"finished_success">> =>
         {"rawcopy", "bin", "mftecmd", "csv"} \subseteq gen.facts
    /\ (\E j \in DOMAIN gen.emitted : gen.emitted[j] = 100) <=>
         gen.terminal = <<"finished_success">>

\* C25 witness: a run that succeeded after it had waited for MFT.bin.
C25_Witness ==
    /\ gen.pc = "success"
    /\ gen.polls > 0
    /\ gen.terminal = <<"finished_success">>

\* C26: the wait loop polls at most 30 times, 2 seconds each, a worker that
\* waits for MFT.bin ends, and a run that ended without MFT.bin has waited
\* the 60 seconds, emitted finished_error and not started MFTECmd.
C26_WaitTerminates ==
    /\ [](gen.polls <= 30 /\ gen.waited = 2 * gen.polls /\ gen.waited <= 60)
    /\ [](gen.pc = "wait" => <>(gen.pc \in {"error", "success"}))
    /\ []((gen.pc = "error" /\ "rawcopy" \in gen.facts /\ "bin" \notin gen.facts) =>
            /\ gen.waited = 60
            /\ gen.terminal = <<"finished_error">>
            /\ "mftecmd" \notin gen.facts
            /\ \A j \in DOMAIN gen.emitted : gen.emitted[j] <= 50)

\* C26 witness: a run that polled 30 times and ended without MFT.bin.
C26_Witness ==
    /\ gen.pc = "error"
    /\ gen.polls = 30
    /\ "bin" \notin gen.facts

\* C27: no worker is replaced while it runs and a running worker is the one
\* the page holds; the button is disabled exactly when the page holds a
\* worker and a dialog, which exist together; after a refusal of
\* generate_mft, and after on_generation_success or on_generation_error,
\* there is no worker, no dialog and the button is enabled.
C27_OneWorker ==
    /\ page.replaced = 0
    /\ isRunning(gen) => page.worker_thread
    /\ page.worker_thread <=> page.progress_dialog # "None"
    /\ ~page.run_btn <=> (page.worker_thread /\ page.progress_dialog # "None")
    /\ page.box \in {"Please select a drive.", "Please choose save location.",
                     "Success", "Error"} =>
         /\ ~page.worker_thread
         /\ page.progress_dialog = "None"
         /\ page.run_btn
    /\ page.box \in {"Please select a drive.", "Please choose save location."} =>
         gen.pc \in {"idle", "error"}

\* C27 witness: a generation that waited for MFT.bin has failed and has
\* been cleaned up.
C27_Witness ==
    /\ page.box = "Error"
    /\ page.handled = 1
    /\ gen.pc = "error"
    /\ gen.polls > 0
    /\ page.run_btn

\* C28: the close of the page is accepted only in a step that finds no
\* running worker, a closeEvent that finds one running asks, the answer to
\* the question never accepts by itself, and an accepted close stays with a
\* worker that is not running.
C28_NoCloseWhileRunning ==
    [][/\ (page'.close = "accepted" /\ page.close # "accepted") =>
             /\ ~(page.worker_thread /\ isRunning(gen))
             /\ page.close \in {"open", "waiting"}
       /\ (page.close = "open" /\ page'.close # "open"
              /\ page.worker_thread /\ isRunning(gen)) =>
             page'.close \in {"asking", "waiting"}
       /\ (page.close = "asking" /\ page'.close # "asking") =>
             page'.close \in {"open", "waiting", "raised"}
       /\ page'.close \in {"accepted", "raised"} =>
             ~(page'.worker_thread /\ isRunning(gen'))]_vars

\* C28 witness: a close that was accepted after the user confirmed it and
\* the worker ended.
C28_Witness ==
    /\ page.close = "accepted"
    /\ page.via = "closeEvent"
    /\ page.waited
    /\ page.worker_thread

\* C29: with every other widget at its default, the view after
\* apply_quick_filter and the view after apply_advanced_filters hold the
\* same records for the same text of quick_search: those the text search of
\* either handler selects.
C29_SameTextSearch ==
    (/\ lastOp \in {"apply_quick_filter", "apply_advanced_filters"}
     /\ Changed(ctl, df) = {}
     /\ df.rows # <<>>) =>
        /\ filtered_df.rows = quick_filter(df, ctl.quick_search).rows
        /\ filtered_df.rows = advanced_filter(df, ctl).rows

\* C30: after a click on a row of the results table that lies within the
\* filtered view, the details pane shows the record whose cells that row of
\* the table displays.
C30_DetailsOfClickedRow ==
    (/\ lastOp = "show_row_details"
     /\ results_details.row < Len(filtered_df.rows)) =>
        Project(results_details.html, search_results.cols)
            = search_results.rows[results_details.row + 1]

====
